---- MODULE Spec2Model ----
(***************************************************************************)
(* Model of the DDNS reconciliation engine of src/src/ddns-update.py:      *)
(* is_valid_ipv4, DDNSClient.get_public_ip, update_ddns_for_user,          *)
(* update_all_users, run_once, save_config and the scheduler loop of run.  *)
(*                                                                         *)
(* Python strings are sequences of one-character strings, so that the      *)
(* regular expression, split, strip, startswith and int are computed on    *)
(* the characters as the interpreter computes them.                        *)
(***************************************************************************)
EXTENDS Integers, Sequences, FiniteSets, TLC

VARIABLES
    pc,           \* position of the single thread of control
    cycle,        \* number of run_once calls started so far
    users,        \* self.users
    cached_ip,    \* self.cached_ip
    current_ip,   \* self.current_ip
    disk_last_ip, \* ddns.last_ip in the canonical config.yaml
    svc_i,        \* get_public_ip: index of the service the for loop is at
    queried,      \* services requested in this cycle, in request order
    svc_log,      \* what each request of the running get_public_ip call ended
                  \* with; emptied when the call has returned
    user_i,       \* update_all_users: index of the user the for loop is at
    calls,        \* update_ddns_for_user invocations of this cycle, in order,
                  \* each with what its request ended with
    result,       \* update_all_users: the result dict
    emails,       \* send_email calls of this cycle, in order
    delivered,    \* what each of them returned
    saves,        \* save_config calls of this cycle
    health,       \* write_health_check calls of this cycle
    path,         \* exit path run_once took in this cycle
    entry,        \* cached_ip, last_ip on disk and users when this cycle's
                  \* run_once was entered
    resolved_ip,  \* the address get_public_ip returned in this cycle, if any
    prev,         \* exit path, resolved address and save of the previous cycle
    arg,          \* argument of the function under test (function specs)
    ret,          \* its return value (function specs)
    saved,        \* how this cycle's save_config call ended, if there was one
    fs,           \* the files: config.yaml, config.yaml.tmp and
                  \* config.yaml.example
    config,       \* self.config, of which self.ddns_config is the ddns part
    exit_code,    \* <<>> while the process runs, then <<its exit status>>
    sched,        \* the clock, self.cron and the locals of the loop of run
    issued,       \* the requests sent so far in the cycle it names, by kind
    sig,          \* where the thread was when a termination signal arrived
    exc           \* the exception that is propagating, "none" if there is none

vars == <<pc, cycle, users, cached_ip, current_ip, disk_last_ip, svc_i, queried,
          svc_log, user_i, calls, result, emails, delivered, saves, health, path, entry,
          resolved_ip, prev, arg, ret, saved, fs, config, exit_code, sched,
          issued, sig, exc>>

(***************************************************************************)
(* Bounds of the model.                                                    *)
(***************************************************************************)
MaxUsers == 3
MaxCycles == 2
MaxParts == 5

\* The specification of run: accounts, run_once calls and minutes of the
\* clock.
MaxRunUsers == 2

MaxRunCycles == 2

MaxTime == 3

(***************************************************************************)
(* Python values.                                                          *)
(***************************************************************************)
\* Python's None where a str is expected (self.current_ip before the first
\* resolution): a value that is no character sequence of the model.
NoneStr == <<"<None>">>

\* not s, for s a str or None
Falsy(s) == s = NoneStr \/ s = <<>>

Digits == {"0", "1", "2", "3", "4", "5", "6", "7", "8", "9"}

DigitVal(c) ==
    CASE c = "0" -> 0 [] c = "1" -> 1 [] c = "2" -> 2 [] c = "3" -> 3
      [] c = "4" -> 4 [] c = "5" -> 5 [] c = "6" -> 6 [] c = "7" -> 7
      [] c = "8" -> 8 [] c = "9" -> 9

\* the characters str.strip() and int() treat as whitespace
Whitespace == {" ", "\n", "\t", "\r"}

RECURSIVE LStrip(_)
LStrip(s) ==
    IF s # <<>> /\ Head(s) \in Whitespace THEN LStrip(Tail(s)) ELSE s

RECURSIVE RStrip(_)
RStrip(s) ==
    IF s # <<>> /\ s[Len(s)] \in Whitespace
    THEN RStrip(SubSeq(s, 1, Len(s) - 1))
    ELSE s

\* str.strip()
Strip(s) == RStrip(LStrip(s))

\* str.startswith(p)
StartsWith(s, p) == Len(s) >= Len(p) /\ SubSeq(s, 1, Len(p)) = p

\* str.split('.'): the components between the dots, empty ones included
RECURSIVE SplitDot(_, _, _)
SplitDot(s, i, acc) ==
    IF i > Len(s) THEN <<acc>>
    ELSE IF s[i] = "." THEN <<acc>> \o SplitDot(s, i + 1, <<>>)
    ELSE SplitDot(s, i + 1, Append(acc, s[i]))

RECURSIVE DecimalValue(_)
DecimalValue(ds) ==
    IF ds = <<>> THEN 0
    ELSE 10 * DecimalValue(SubSeq(ds, 1, Len(ds) - 1)) + DigitVal(ds[Len(ds)])

\* int(part): surrounding whitespace is dropped, one sign is allowed, then
\* one or more digits; anything else raises ValueError (ok = FALSE).
PyInt(part) ==
    LET t == Strip(part)
        signed == t # <<>> /\ Head(t) \in {"+", "-"}
        ds == IF signed THEN Tail(t) ELSE t
    IN  IF ds # <<>> /\ \A k \in 1..Len(ds) : ds[k] \in Digits
        THEN [ok |-> TRUE,
              val |-> IF signed /\ Head(t) = "-" THEN 0 - DecimalValue(ds)
                      ELSE DecimalValue(ds)]
        ELSE [ok |-> FALSE, val |-> 0]

(***************************************************************************)
(* IP_V4_PATTERN = re.compile(r'^(\d{1,3}\.){3}\d{1,3}$') and its match(), *)
(* as sets of positions the matcher can be at.                             *)
(***************************************************************************)
\* \d{1,3} from position i: the positions after 1, 2 or 3 digits
AfterDigits(s, i) ==
    {j \in (i + 1)..(i + 3) :
        j <= Len(s) + 1 /\ \A k \in i..(j - 1) : s[k] \in Digits}

\* (\d{1,3}\.) from position i
AfterGroup(s, i) ==
    {j + 1 : j \in {q \in AfterDigits(s, i) : q <= Len(s) /\ s[q] = "."}}

AfterGroups(s, P) == UNION {AfterGroup(s, i) : i \in P}

\* $ without re.MULTILINE: at the end of the string, and also just before a
\* newline that is the last character of the string
DollarAt(s, j) == j = Len(s) + 1 \/ (j = Len(s) /\ s[j] = "\n")

\* IP_V4_PATTERN.match(s) is not None
IP_V4_PATTERN(s) ==
    \E j \in UNION {AfterDigits(s, i) :
                      i \in AfterGroups(s, AfterGroups(s, AfterGroups(s, {1})))} :
        DollarAt(s, j)

\* all(0 <= int(part) <= 255 for part in ip.split('.')), False on ValueError
OctetsInRange(ip) ==
    LET parts == SplitDot(ip, 1, <<>>)
    IN  \A k \in 1..Len(parts) :
            PyInt(parts[k]).ok /\ 0 <= PyInt(parts[k]).val /\ PyInt(parts[k]).val <= 255

is_valid_ipv4(ip) ==
    IF Falsy(ip) \/ ~IP_V4_PATTERN(ip) THEN FALSE ELSE OctetsInRange(ip)

(***************************************************************************)
(* update_ddns_for_user: the request's outcome and its classification.     *)
(* An outcome is [kind, http_error, text]: kind "response" is a response   *)
(* that was received, with text its body and http_error whether            *)
(* raise_for_status raises on its status; the other kinds are the          *)
(* exceptions requests.get raises, with text the exception's message.      *)
(* An error message is [msg, detail]: the fixed wording of the message     *)
(* (named in English here) and the value the f-string interpolates.        *)
(***************************************************************************)
T_good == <<"g", "o", "o", "d">>
T_nochg == <<"n", "o", "c", "h", "g">>
T_badauth == <<"b", "a", "d", "a", "u", "t", "h">>
T_911 == <<"9", "1", "1">>
T_notfqdn == <<"n", "o", "t", "f", "q", "d", "n">>
T_nohost == <<"n", "o", "h", "o", "s", "t">>
T_dnserr == <<"d", "n", "s", "e", "r", "r">>

Ok == [success |-> TRUE, error_msg |-> [msg |-> "", detail |-> <<>>]]

Fail(m, d) == [success |-> FALSE, error_msg |-> [msg |-> m, detail |-> d]]

ClassifyResponse_ExactMatch(response_text) ==
    IF response_text \in {T_good, T_nochg} THEN Ok
    ELSE IF response_text = T_badauth THEN Fail("auth_failed", <<>>)
    ELSE IF response_text = T_911 THEN Fail("maintenance", <<>>)
    ELSE IF response_text = T_notfqdn THEN Fail("bad_hostname", <<>>)
    ELSE IF response_text = T_nohost THEN Fail("host_not_found", <<>>)
    ELSE IF response_text = T_dnserr THEN Fail("dns_error", <<>>)
    ELSE Fail("update_failed", response_text)

\* lines 458-487: the if/elif chain over response_text
ClassifyResponse(response_text) ==
    IF StartsWith(response_text, T_good) THEN Ok
    ELSE IF StartsWith(response_text, T_nochg) THEN Ok
    ELSE IF StartsWith(response_text, T_badauth) THEN Fail("auth_failed", <<>>)
    ELSE IF StartsWith(response_text, T_911) THEN Fail("maintenance", <<>>)
    ELSE IF StartsWith(response_text, T_notfqdn) THEN Fail("bad_hostname", <<>>)
    ELSE IF StartsWith(response_text, T_nohost) THEN Fail("host_not_found", <<>>)
    ELSE IF StartsWith(response_text, T_dnserr) THEN Fail("dns_error", <<>>)
    ELSE Fail("update_failed", response_text)

update_ddns_for_user_NoRaiseForStatus(cur_ip, o) ==
    IF Falsy(cur_ip) THEN Fail("current_ip_empty", <<>>)
    ELSE IF ~is_valid_ipv4(cur_ip) THEN Fail("ip_invalid", cur_ip)
    ELSE IF o.kind = "timeout" THEN Fail("timeout", <<>>)
    ELSE IF o.kind = "request_exception" THEN Fail("network_error", o.text)
    ELSE IF o.kind = "exception" THEN Fail("unknown_error", o.text)
    ELSE ClassifyResponse(Strip(o.text))

\* lines 429-499: the checks of current_ip, the except clauses in their order
\* (Timeout, RequestException, which the HTTPError of raise_for_status is,
\* Exception) and the classification of the response
update_ddns_for_user(cur_ip, o) ==
    IF Falsy(cur_ip) THEN Fail("current_ip_empty", <<>>)
    ELSE IF ~is_valid_ipv4(cur_ip) THEN Fail("ip_invalid", cur_ip)
    ELSE IF o.kind = "timeout" THEN Fail("timeout", <<>>)
    ELSE IF o.kind = "request_exception" THEN Fail("network_error", o.text)
    ELSE IF o.kind = "exception" THEN Fail("unknown_error", o.text)
    ELSE IF o.http_error THEN Fail("network_error", o.text)
    ELSE ClassifyResponse(Strip(o.text))

(***************************************************************************)
(* The values the environment supplies.                                    *)
(***************************************************************************)
SENTINEL == <<"0", ".", "0", ".", "0", ".", "0">>
IP1 == <<"1", ".", "2", ".", "3", ".", "4">>
IP2 == <<"5", ".", "6", ".", "7", ".", "8">>
\* matches the services' (\d+\.\d+\.\d+\.\d+) and is no IPv4 address
BadCapture == <<"1", ".", "2", ".", "3", ".", "4", "5", "6">>

\* len(IP_CHECK_SERVICES)
NumServices == 3

\* What one request of get_public_ip ends with: [kind, status, ip]. kind
\* "response" is a response that was received, with its status code and the
\* group re.search captured from its body (NoneStr: the pattern did not
\* match); the other kinds are the exceptions requests.get raises.
ServiceOutcomes ==
    {[kind |-> k, status |-> 0, ip |-> NoneStr] :
        k \in {"timeout", "request_exception", "exception"}}
    \cup {[kind |-> "response", status |-> 503, ip |-> IP1]}
    \cup {[kind |-> "response", status |-> 200, ip |-> c] :
            c \in {NoneStr, BadCapture, IP1, IP2}}

ServiceYieldsIp_AnyStatus(o) ==
    /\ o.kind = "response"
    /\ o.ip # NoneStr
    /\ is_valid_ipv4(o.ip)

\* lines 395-404: the conditions under which a request returns True
ServiceYieldsIp(o) ==
    /\ o.kind = "response"
    /\ o.status = 200
    /\ o.ip # NoneStr
    /\ is_valid_ipv4(o.ip)

\* What the requests of the update loop end with in the reconciliation
\* machine (the function specification below draws from a wider set).
UpdateOutcomes ==
    {[kind |-> "response", http_error |-> FALSE, text |-> t] :
        t \in {T_good, T_nochg, T_badauth}}
    \cup {[kind |-> "timeout", http_error |-> FALSE, text |-> <<>>]}

UserPool == <<"A", "B", "C", "D", "E", "F">>

\* The account lists _validate_config lets through: one or more users, each
\* with a non-blank username and password; usernames need not differ.
UserLists ==
    {[i \in 1..n |-> [username |-> UserPool[i], password |-> "pw"]] :
        n \in 1..MaxUsers}
    \cup {<<[username |-> "A", password |-> "pw"],
            [username |-> "A", password |-> "pw2"]>>}

\* not v, for a dict value that is a str or missing (None)
CredMissing(v) == v \in {"", "<None>"}

EmptyResult ==
    [all_success |-> FALSE, success_users |-> <<>>, failed_users |-> <<>>,
     skipped_count |-> 0]

AllSuccess_OfAllListed(res, us) ==
    Len(res.success_users) = Len(us) /\ Len(us) > 0

AllSuccess_AnySucceeded(res, us) == Len(res.success_users) > 0

\* lines 540-541
AllSuccess(res, us) ==
    LET total_valid_users == Len(us) - res.skipped_count
    IN  Len(res.success_users) = total_valid_users /\ total_valid_users > 0

Aggregate_FailureInBoth(res, username, r) ==
    IF r.success
    THEN [res EXCEPT !.success_users = Append(@, username)]
    ELSE [res EXCEPT !.success_users = Append(@, username),
                     !.failed_users =
                         Append(@, [username |-> username, error |-> r.error_msg])]

\* lines 531-538: one user's outcome folded into the result dict
Aggregate(res, username, r) ==
    IF r.success
    THEN [res EXCEPT !.success_users = Append(@, username)]
    ELSE [res EXCEPT !.failed_users =
              Append(@, [username |-> username, error |-> r.error_msg])]

\* lines 580-617: the subject and the parts of the aggregated report
BuildReport(res, new_ip, old_ip) ==
    [subject |-> IF res.all_success THEN "update_success" ELSE "update_result",
     new_ip |-> new_ip,
     old_ip |-> old_ip,
     success_part |-> res.success_users,
     failed_part |-> res.failed_users,
     skipped_part |-> res.skipped_count]

\* lines 415-417: the notification get_public_ip sends
IpFailureMail ==
    [subject |-> "get_ip_failed", new_ip |-> NoneStr, old_ip |-> NoneStr,
     success_part |-> <<>>, failed_part |-> <<>>, skipped_part |-> 0]

IpUnchanged_Never(cur, cached) == FALSE

\* line 572
IpUnchanged(cur, cached) == cur = cached

(***************************************************************************)
(* Configuration documents and files. A document is what yaml.safe_load    *)
(* returns and yaml.dump writes; a key that is not in the mapping holds    *)
(* the value Missing (a str value) or "<missing>" (any other value), and a *)
(* null holds NoneStr or "<None>".                                         *)
(***************************************************************************)
Missing == <<"<missing>">>

\* the document of an empty file: safe_load returns None
EmptyDoc ==
    [shape |-> "empty", users_is_list |-> TRUE, users |-> <<>>,
     schedule |-> "<missing>", server |-> "<missing>", port |-> "<missing>",
     last_ip |-> Missing, smtp |-> "<missing>"]

\* a document that passes _validate_config, with the users and last_ip given
GoodDoc(us, last) ==
    [shape |-> "ok", users_is_list |-> TRUE, users |-> us,
     schedule |-> "*/2 * * * *", server |-> "api.dynu.com", port |-> "8245",
     last_ip |-> last, smtp |-> "set"]

NoFile == [state |-> "absent", doc |-> EmptyDoc]

\* a file that holds the whole dump of doc
File(doc) == [state |-> "complete", doc |-> doc]

\* a file a write of the dump of doc stopped in the middle of
PartFile(doc) == [state |-> "partial", doc |-> doc]

\* The values the variables of the other specifications rest at.
NoFs == [canonical |-> NoFile, staging |-> NoFile, example |-> NoFile]

SchedAtRest ==
    [start |-> 0, now |-> 0, cron |-> 0, next_time |-> 0, wait_seconds |-> 0,
     get_next |-> 0, sleeps |-> 0, slept |-> FALSE]

IssuedAtRest == [cycle |-> 0, resolve |-> 0, update |-> 0, mail |-> 0]

SigAtRest == [pc |-> "none", cycle |-> 0, in_call |-> FALSE]

OthersAtRest ==
    /\ fs = NoFs
    /\ config = EmptyDoc
    /\ exit_code = <<>>
    /\ sched = SchedAtRest
    /\ issued = IssuedAtRest
    /\ sig = SigAtRest
    /\ exc = "none"

(***************************************************************************)
(* The reconciliation machine. Init is the state after DDNSClient() has    *)
(* been constructed from a configuration that passed _validate_config.     *)
(***************************************************************************)
Init ==
    /\ pc = "run"
    /\ cycle = 0
    /\ users \in UserLists
    /\ cached_ip \in {SENTINEL, IP1}
    /\ disk_last_ip = cached_ip
    /\ current_ip = NoneStr
    /\ svc_i = 1
    /\ queried = <<>>
    /\ svc_log = <<>>
    /\ user_i = 1
    /\ calls = <<>>
    /\ result = EmptyResult
    /\ emails = <<>>
    /\ delivered = <<>>
    /\ saves = 0
    /\ health = 0
    /\ path = "none"
    /\ entry = [cached_ip |-> cached_ip, disk_last_ip |-> cached_ip,
                 users |-> users]
    /\ resolved_ip = NoneStr
    /\ prev = [path |-> "none", ip |-> NoneStr, saved |-> "none"]
    /\ arg = NoneStr
    /\ ret = FALSE
    /\ saved = "none"
    /\ config = GoodDoc(users, cached_ip)
    /\ fs = [canonical |-> File(config), staging |-> NoFile,
             example |-> NoFile]
    /\ exit_code = <<>>
    /\ sched = SchedAtRest
    /\ issued = IssuedAtRest
    /\ sig = SigAtRest
    /\ exc = "none"

write_health_check_NotCalled(h) == h

\* write_health_check, lines 128-134, as run_once calls it: health counts the
\* calls of the cycle. A write that fails is logged and passed over.
write_health_check(h) == h + 1

AfterStartup_NextTrigger == "loop"

\* run, lines 667-671: what run does first is to call run_once
AfterStartup == "run_once"

\* run, lines 667-671: the first run_once is called at once
RunFirst ==
    /\ pc = "run"
    /\ pc' = AfterStartup
    /\ UNCHANGED <<cycle, users, cached_ip, current_ip, disk_last_ip, svc_i,
                   queried, svc_log, user_i, calls, result, emails, delivered, saves,
                   health, path, entry, resolved_ip, prev, arg, ret,
                   saved, fs, config, exit_code, sched, issued, sig, exc>>

\* run, lines 673-684: next trigger, sleep when the wait is positive, then
\* run_once
RunLoop ==
    /\ pc = "loop"
    /\ cycle < MaxCycles
    /\ \E wait_positive \in BOOLEAN : pc' = "run_once"
    /\ UNCHANGED <<cycle, users, cached_ip, current_ip, disk_last_ip, svc_i,
                   queried, svc_log, user_i, calls, result, emails, delivered, saves,
                   health, path, entry, resolved_ip, prev, arg, ret,
                   saved, fs, config, exit_code, sched, issued, sig, exc>>

\* run_once, lines 554-558: health checkpoint, then get_public_ip is entered
RunOnceEnter ==
    /\ pc = "run_once"
    /\ pc' = "get_public_ip"
    /\ cycle' = cycle + 1
    /\ health' = write_health_check(0)
    /\ svc_i' = 1
    /\ queried' = <<>>
    /\ svc_log' = <<>>
    /\ user_i' = 1
    /\ calls' = <<>>
    /\ result' = EmptyResult
    /\ emails' = <<>>
    /\ delivered' = <<>>
    /\ saves' = 0
    /\ path' = "running"
    /\ entry' = [cached_ip |-> cached_ip, disk_last_ip |-> disk_last_ip,
                  users |-> users]
    /\ resolved_ip' = NoneStr
    /\ prev' = [path |-> path, ip |-> resolved_ip, saved |-> saved]
    /\ saved' = "none"
    /\ UNCHANGED <<users, cached_ip, current_ip, disk_last_ip, arg, ret,
                   fs, config, exit_code, sched, issued, sig, exc>>

\* get_public_ip, lines 393-412: one iteration of the for loop. The loop
\* returns True at the first service that yields a valid address and moves
\* to the next service otherwise.
NextService(i, yields) == IF yields THEN i ELSE i + 1

GetPublicIpQuery ==
    /\ pc = "get_public_ip"
    /\ svc_i <= NumServices
    /\ \E o \in ServiceOutcomes :
        /\ queried' = Append(queried, svc_i)
        /\ svc_log' = Append(svc_log, o)
        /\ svc_i' = NextService(svc_i, ServiceYieldsIp(o))
        /\ IF ServiceYieldsIp(o)
           THEN current_ip' = o.ip /\ resolved_ip' = o.ip /\ pc' = "got_ip"
           ELSE UNCHANGED <<current_ip, resolved_ip, pc>>
    /\ UNCHANGED <<cycle, users, cached_ip, disk_last_ip, user_i, calls, result,
                   emails, delivered, saves, health, path, entry, prev, arg, ret,
                   saved, fs, config, exit_code, sched, issued, sig, exc>>

AfterRunOnce_StopWhenFalse(returned) == IF returned THEN "loop" ELSE "exited"

\* run, lines 671 and 684: what run_once returns is not used, run goes on
\* to the next pass of the loop
AfterRunOnce(returned) == "loop"

\* line 417: send_email is called once when every service failed
ResolveFailureMails_None == <<>>

ResolveFailureMails == <<IpFailureMail>>

\* get_public_ip, lines 414-418, and run_once, lines 558-562: every service
\* failed
GetPublicIpFail ==
    /\ pc = "get_public_ip"
    /\ svc_i > NumServices
    /\ emails' = emails \o ResolveFailureMails
    /\ \E ok \in BOOLEAN :
        delivered' = delivered \o [i \in DOMAIN ResolveFailureMails |-> ok]
    /\ health' = write_health_check(health)
    /\ path' = "resolve_failed"
    /\ pc' = AfterRunOnce(FALSE)
    /\ svc_log' = <<>>
    /\ UNCHANGED <<cycle, users, cached_ip, current_ip, disk_last_ip, svc_i,
                   queried, user_i, calls, result, saves, entry, resolved_ip,
                   prev, arg, ret,
                   saved, fs, config, exit_code, sched, issued, sig, exc>>

\* run_once, lines 564-578, and update_all_users, lines 511-520
RunOnceCheck ==
    /\ pc = "got_ip"
    /\ svc_log' = <<>>
    /\ IF Falsy(current_ip) \/ ~is_valid_ipv4(current_ip)
       THEN /\ health' = write_health_check(health)
            /\ path' = "invalid_ip"
            /\ pc' = AfterRunOnce(FALSE)
            /\ UNCHANGED <<result, user_i>>
       ELSE IF IpUnchanged(current_ip, cached_ip)
       THEN /\ health' = write_health_check(health)
            /\ path' = "skipped"
            /\ pc' = AfterRunOnce(TRUE)
            /\ UNCHANGED <<result, user_i>>
       ELSE /\ result' = EmptyResult
            /\ user_i' = 1
            /\ path' = "updating"
            /\ pc' = IF users = <<>> THEN "report" ELSE "update_all_users"
            /\ UNCHANGED health
    /\ UNCHANGED <<cycle, users, cached_ip, current_ip, disk_last_ip, svc_i,
                   queried, calls, emails, delivered, saves, entry, resolved_ip, prev, arg, ret,
                   saved, fs, config, exit_code, sched, issued, sig, exc>>

MyIp_Cached(cur, cached) == cached

\* update_ddns_for_user, line 445: 'myip': self.current_ip
MyIp(cur, cached) == cur

\* update_all_users, lines 522-538: one iteration of the for loop
NextUser_StopAtFailure(i, r) == IF r.success THEN i + 1 ELSE Len(users) + 1

NextUser(i, r) == i + 1

UpdateAllUsersStep ==
    /\ pc = "update_all_users"
    /\ user_i <= Len(users)
    /\ LET user == users[user_i]
       IN  IF CredMissing(user.username) \/ CredMissing(user.password)
           THEN /\ result' = [result EXCEPT !.skipped_count = @ + 1]
                /\ user_i' = user_i + 1
                /\ UNCHANGED calls
           ELSE \E o \in UpdateOutcomes :
                  LET r == update_ddns_for_user(current_ip, o)
                  IN  /\ calls' = Append(calls, [username |-> user.username,
                                                 password |-> user.password,
                                                 myip |-> MyIp(current_ip, cached_ip),
                                                 outcome |-> o])
                      /\ result' = Aggregate(result, user.username, r)
                      /\ user_i' = NextUser(user_i, r)
    /\ UNCHANGED <<pc, cycle, users, cached_ip, current_ip, disk_last_ip, svc_i,
                   queried, svc_log, emails, delivered, saves, health, path, entry, resolved_ip, prev,
                   arg, ret,
                   saved, fs, config, exit_code, sched, issued, sig, exc>>

\* update_all_users, lines 540-543
UpdateAllUsersReturn ==
    /\ pc = "update_all_users"
    /\ user_i > Len(users)
    /\ result' = [result EXCEPT !.all_success = AllSuccess(result, users)]
    /\ pc' = "report"
    /\ UNCHANGED <<cycle, users, cached_ip, current_ip, disk_last_ip, svc_i,
                   queried, svc_log, user_i, calls, emails, delivered, saves, health, path,
                   entry, resolved_ip, prev, arg, ret,
                   saved, fs, config, exit_code, sched, issued, sig, exc>>

\* run_once, lines 580-623: the report is built and send_email is called
\* once; what send_email returns is only logged
ReportMails_OnlyOnFailure(res, new_ip, old_ip) ==
    IF res.all_success THEN <<>> ELSE <<BuildReport(res, new_ip, old_ip)>>

ReportMails(res, new_ip, old_ip) == <<BuildReport(res, new_ip, old_ip)>>

RunOnceReport ==
    /\ pc = "report"
    /\ emails' = emails \o ReportMails(result, current_ip, cached_ip)
    /\ \E ok \in BOOLEAN :
        delivered' = delivered
            \o [i \in DOMAIN ReportMails(result, current_ip, cached_ip) |-> ok]
    /\ pc' = "persist"
    /\ UNCHANGED <<cycle, users, cached_ip, current_ip, disk_last_ip, svc_i,
                   queried, svc_log, user_i, calls, result, saves, health, path,
                   entry, resolved_ip, prev, arg, ret,
                   saved, fs, config, exit_code, sched, issued, sig, exc>>

ShouldPersist_OnlyIfDelivered(res) ==
    res.all_success /\ \A i \in DOMAIN delivered : delivered[i]

ShouldPersist_AnySucceeded(res) == res.success_users # <<>>

ShouldPersist_Never(res) == FALSE

\* run_once, line 626
ShouldPersist(res) == res.all_success

CachedAfterSave_RevertOnError(new, old, written) ==
    IF written THEN new ELSE old

\* run_once, lines 627-631: the assignment comes before save_config and the
\* except clause only logs
CachedAfterSave(new, old, written) == new

SavedLastIp_Sentinel(cached) == SENTINEL

\* save_config, line 282: the last_ip that is written is self.cached_ip
SavedLastIp(cached) == cached

\* run_once, lines 625-634, with save_config, lines 280-321: the cached
\* address is set and save_config is called; save_config replaces the
\* canonical file and returns, or raises, which run_once logs. The steps of
\* save_config and the other states it can leave the files in are those of
\* SaveConfigStep.
RunOncePersist ==
    /\ pc = "persist"
    /\ IF ShouldPersist(result)
       THEN /\ saves' = saves + 1
            /\ \E written \in BOOLEAN :
                /\ cached_ip' = CachedAfterSave(current_ip, cached_ip, written)
                /\ config' = [config EXCEPT
                                 !.last_ip = SavedLastIp(current_ip)]
                /\ fs' = IF written
                         THEN [fs EXCEPT !.canonical = File(config')]
                         ELSE fs
                /\ disk_last_ip' = IF written
                                   THEN SavedLastIp(current_ip)
                                   ELSE disk_last_ip
                /\ saved' = IF written THEN "returned" ELSE "raised"
       ELSE UNCHANGED <<cached_ip, saves, disk_last_ip, saved, config, fs>>
    /\ health' = write_health_check(health)
    /\ path' = IF result.all_success THEN "success" ELSE "failed"
    /\ pc' = AfterRunOnce(result.all_success)
    /\ UNCHANGED <<cycle, users, current_ip, svc_i, queried, svc_log, user_i,
                   calls, result, emails, delivered, entry, resolved_ip, prev, arg, ret,
                   exit_code, sched, issued, sig, exc>>

Next ==
    \/ RunFirst
    \/ RunLoop
    \/ RunOnceEnter
    \/ GetPublicIpQuery
    \/ GetPublicIpFail
    \/ RunOnceCheck
    \/ UpdateAllUsersStep
    \/ UpdateAllUsersReturn
    \/ RunOnceReport
    \/ RunOncePersist

Spec == Init /\ [][Next]_vars

\* a run_once call has returned
CycleDone == pc \in {"loop", "run_once"} /\ cycle >= 1

(***************************************************************************)
(* Function specifications: a function of the program applied to inputs    *)
(* drawn from a bounded set, the reconciliation machine standing still.    *)
(***************************************************************************)
CycleAtRest ==
    /\ cycle = 0
    /\ current_ip = NoneStr
    /\ svc_i = 1
    /\ queried = <<>>
    /\ svc_log = <<>>
    /\ user_i = 1
    /\ calls = <<>>
    /\ result = EmptyResult
    /\ emails = <<>>
    /\ delivered = <<>>
    /\ saves = 0
    /\ health = 0
    /\ path = "none"
    /\ resolved_ip = NoneStr
    /\ prev = [path |-> "none", ip |-> NoneStr, saved |-> "none"]
    /\ saved = "none"

MachineAtRest ==
    /\ CycleAtRest
    /\ users = <<[username |-> "A", password |-> "pw"]>>
    /\ cached_ip = SENTINEL
    /\ disk_last_ip = SENTINEL
    /\ entry = [cached_ip |-> SENTINEL, disk_last_ip |-> SENTINEL, users |-> users]
    /\ OthersAtRest

\* The components the inputs of is_valid_ipv4 are joined from with dots.
Pieces ==
    {<<>>, <<"0">>, <<"2", "5">>, <<"2", "5", "5">>, <<"2", "5", "6">>,
     <<"1", "2", "3", "4">>, <<"1", "a">>, <<"4", "\n">>}

RECURSIVE JoinDot(_)
JoinDot(ps) ==
    IF ps = <<>> THEN <<>>
    ELSE IF Len(ps) = 1 THEN ps[1]
    ELSE ps[1] \o <<".">> \o JoinDot(Tail(ps))

IPv4Inputs ==
    {NoneStr} \cup {JoinDot(ps) : ps \in UNION {[1..n -> Pieces] : n \in 0..MaxParts}}

InitIPv4 ==
    /\ MachineAtRest
    /\ pc = "call"
    /\ arg \in IPv4Inputs
    /\ ret = FALSE

CallIsValidIPv4 ==
    /\ pc = "call"
    /\ ret' = is_valid_ipv4(arg)
    /\ pc' = "return"
    /\ UNCHANGED <<cycle, users, cached_ip, current_ip, disk_last_ip, svc_i,
                   queried, svc_log, user_i, calls, result, emails, delivered, saves,
                   health, path, entry, resolved_ip, prev, arg,
                   saved, fs, config, exit_code, sched, issued, sig, exc>>

SpecIPv4 == InitIPv4 /\ [][CallIsValidIPv4]_vars

\* The response bodies and exceptions update_ddns_for_user is applied to.
ResponseTexts ==
    {lead \o core \o trail :
        lead \in {<<>>, <<" ">>, <<"\n">>},
        core \in {T_good, T_nochg, T_badauth, T_911, T_notfqdn, T_nohost,
                  T_dnserr, <<>>, <<"g", "o", "o">>, <<"G", "o", "o", "d">>,
                  <<"x", "g", "o", "o", "d">>, <<"e", "r", "r", "o", "r">>},
        trail \in {<<>>, <<" ", "1">>, <<"\n">>, <<"x">>}}

WideOutcomes ==
    {[kind |-> "response", http_error |-> h, text |-> t] :
        h \in BOOLEAN, t \in ResponseTexts}
    \cup {[kind |-> k, http_error |-> FALSE, text |-> t] :
            k \in {"timeout", "request_exception", "exception"},
            t \in {<<>>, T_good}}

InitUpdateUser ==
    /\ MachineAtRest
    /\ pc = "call"
    /\ arg \in [cur_ip : {IP1, NoneStr, BadCapture}, o : WideOutcomes]
    /\ ret = FALSE

CallUpdateDdnsForUser ==
    /\ pc = "call"
    /\ ret' = update_ddns_for_user(arg.cur_ip, arg.o)
    /\ pc' = "return"
    /\ UNCHANGED <<cycle, users, cached_ip, current_ip, disk_last_ip, svc_i,
                   queried, svc_log, user_i, calls, result, emails, delivered, saves,
                   health, path, entry, resolved_ip, prev, arg,
                   saved, fs, config, exit_code, sched, issued, sig, exc>>

SpecUpdateUser == InitUpdateUser /\ [][CallUpdateDdnsForUser]_vars

(***************************************************************************)
(* Properties of the reconciliation cycle, checked under Spec.             *)
(***************************************************************************)
\* run_once has reached update_all_users in this cycle and has returned
UpdatingDone == CycleDone /\ path \in {"success", "failed"}

\* update_all_users has returned in this cycle
UpdateReturned == pc \in {"report", "persist"} \/ UpdatingDone

\* the accounts of a list that update_all_users attempts
Attempted(us) ==
    SelectSeq(us, LAMBDA u : ~(CredMissing(u.username) \/ CredMissing(u.password)))

CallAccounts(cs) ==
    [k \in 1..Len(cs) |-> [username |-> cs[k].username, password |-> cs[k].password]]

\* C1: the in-memory cached address differs from its value at the cycle's
\* entry only once the cycle has taken the overall-success exit, where every
\* attempted account succeeded and at least one was attempted, and it is
\* then the address resolved in this cycle; once an account has failed in a
\* cycle the cached address and the file keep their values at entry and
\* save_config is not called.
C1_CachedIpOnlyOnOverallSuccess ==
    /\ cached_ip # entry.cached_ip =>
          /\ path = "success"
          /\ result.all_success
          /\ result.failed_users = <<>>
          /\ Len(calls) > 0
          /\ Len(result.success_users) = Len(calls)
          /\ resolved_ip # NoneStr
          /\ cached_ip = resolved_ip
    /\ result.failed_users # <<>> =>
          /\ cached_ip = entry.cached_ip
          /\ disk_last_ip = entry.disk_last_ip
          /\ saves = 0
    /\ saves > 0 => path = "success"

C1_Witness ==
    /\ CycleDone
    /\ path = "success"
    /\ Len(users) >= 2
    /\ entry.cached_ip = IP1
    /\ cached_ip = IP2
    /\ saves = 1

\* C2: a cycle whose resolved address equals the cached address takes the
\* Skipped exit, and on that exit there was no account-update call, no
\* save_config call and no notification, the cached address and last_ip on
\* disk have their values at entry, and the health checkpoint was written at
\* the start and at the end.
C2_SkippedPathTouchesNothing ==
    /\ (CycleDone /\ resolved_ip # NoneStr /\ resolved_ip = entry.cached_ip) =>
          path = "skipped"
    /\ path = "skipped" =>
          /\ resolved_ip = entry.cached_ip
          /\ calls = <<>>
          /\ saves = 0
          /\ emails = <<>>
          /\ cached_ip = entry.cached_ip
          /\ disk_last_ip = entry.disk_last_ip
          /\ health = 2

C2_Witness ==
    /\ CycleDone
    /\ path = "skipped"
    /\ resolved_ip = IP1
    /\ cached_ip = IP1

\* C3 as stated: a cycle that resolves the address the previous cycle
\* resolved makes no account-update call and no save_config call, whatever
\* the previous cycle's outcome.
C3_SecondRunIdleAfterAnyOutcome ==
    (CycleDone /\ resolved_ip # NoneStr /\ prev.ip = resolved_ip) =>
        calls = <<>> /\ saves = 0

\* C3 as amended: a cycle that resolves the address the previous cycle
\* resolved makes no account-update call and no save_config call when the
\* previous cycle ended in overall success or Skipped.
C3_SecondRunIdleAfterSuccessOrSkip ==
    (/\ CycleDone
     /\ resolved_ip # NoneStr
     /\ prev.ip = resolved_ip
     /\ prev.path \in {"success", "skipped"}) =>
        path = "skipped" /\ calls = <<>> /\ saves = 0

C3_Witness ==
    /\ CycleDone
    /\ cycle = 2
    /\ prev.path = "success"
    /\ prev.ip = IP2
    /\ resolved_ip = IP2
    /\ calls = <<>>

\* C4: while the update loop runs, the accounts update_ddns_for_user was
\* invoked for are exactly the attempted accounts before the loop position,
\* once each and in list order; when update_all_users has returned they are
\* all attempted accounts of the list, whatever the earlier accounts'
\* outcomes were, each call carrying the address resolved in this cycle.
C4_EveryAccountOnceInOrder ==
    /\ pc = "update_all_users" =>
          CallAccounts(calls) = Attempted(SubSeq(users, 1, user_i - 1))
    /\ UpdateReturned => CallAccounts(calls) = Attempted(users)
    /\ \A k \in 1..Len(calls) : calls[k].myip = resolved_ip

C4_Witness ==
    /\ UpdatingDone
    /\ Len(users) = 3
    /\ Len(calls) = 3
    /\ calls[1].outcome.kind = "timeout"
    /\ calls[2].outcome.text = T_badauth
    /\ calls[3].outcome.text = T_good
    /\ calls[3].username = users[3].username

\* C5: a cycle that reached the update loop has sent no notification while
\* the loop runs and exactly one, the aggregated report, from the report
\* step to the end of the cycle, on the success and on the failure exit.
C5_OneNotificationPerUpdatingCycle ==
    /\ pc \in {"update_all_users", "report"} => emails = <<>>
    /\ (pc = "persist" \/ UpdatingDone) =>
          /\ Len(emails) = 1
          /\ emails[1].subject =
                (IF result.all_success THEN "update_success" ELSE "update_result")

C5_Witness ==
    /\ UpdatingDone
    /\ path = "failed"
    /\ Len(result.failed_users) >= 2
    /\ Len(emails) = 1

\* the usernames of the calls that succeeded, and the failed calls with
\* their reasons, in call order
C6Succeeded ==
    LET ok == SelectSeq(calls,
                  LAMBDA c : update_ddns_for_user(c.myip, c.outcome).success)
    IN  [k \in 1..Len(ok) |-> ok[k].username]

C6Failed ==
    LET ko == SelectSeq(calls,
                  LAMBDA c : ~update_ddns_for_user(c.myip, c.outcome).success)
    IN  [k \in 1..Len(ko) |->
            [username |-> ko[k].username,
             error |-> update_ddns_for_user(ko[k].myip, ko[k].outcome).error_msg]]

\* C6: when update_all_users has returned, success_users holds exactly the
\* attempted accounts whose call succeeded and failed_users exactly those
\* whose call failed, each with that call's reason; the two lengths and
\* skipped_count add up to the number of configured accounts; a failure
\* makes all_success false; the one notification carries both lists; and
\* with accounts A, B, C where only B fails with badauth the result is
\* succeeded A, C and failed B with the authentication reason.
C6_ResultPartitionsAccounts ==
    UpdateReturned =>
        /\ result.success_users = C6Succeeded
        /\ result.failed_users = C6Failed
        /\ Len(result.success_users) + Len(result.failed_users)
              + result.skipped_count = Len(users)
        /\ (result.failed_users # <<>> => ~result.all_success)
        /\ pc # "report" =>
              /\ Len(emails) = 1
              /\ emails[1].success_part = C6Succeeded
              /\ emails[1].failed_part = C6Failed
              /\ (result.failed_users # <<>> => emails[1].subject = "update_result")
        /\ (/\ Len(users) = 3
            /\ Len(calls) = 3
            /\ calls[1].outcome.text \in {T_good, T_nochg}
            /\ calls[1].outcome.kind = "response"
            /\ calls[2].outcome.text = T_badauth
            /\ calls[3].outcome.text \in {T_good, T_nochg}
            /\ calls[3].outcome.kind = "response") =>
              /\ result.success_users = <<users[1].username, users[3].username>>
              /\ result.failed_users =
                    <<[username |-> users[2].username,
                       error |-> [msg |-> "auth_failed", detail |-> <<>>]]>>
              /\ ~result.all_success

C6_Witness ==
    /\ UpdatingDone
    /\ result.success_users = <<"A", "C">>
    /\ result.failed_users =
          <<[username |-> "B", error |-> [msg |-> "auth_failed", detail |-> <<>>]]>>
    /\ ~result.all_success
    /\ Len(emails) = 1
    /\ emails[1].success_part = <<"A", "C">>
    /\ Len(emails[1].failed_part) = 1

\* C7: a cycle in which no service yields an address ends on the
\* resolution-failure exit, and on that exit every service was queried, one
\* notification (the failure notice) was sent, there was no account-update
\* call and no save_config call, the cached address, last_ip on disk and the
\* account list have their values at entry, and the health checkpoint was
\* written at the start and at the end.
C7_ResolutionFailureExit ==
    /\ (CycleDone /\ resolved_ip = NoneStr) => path = "resolve_failed"
    /\ path = "resolve_failed" =>
          /\ CycleDone
          /\ resolved_ip = NoneStr
          /\ Len(queried) = NumServices
          /\ Len(emails) = 1
          /\ emails[1].subject = "get_ip_failed"
          /\ calls = <<>>
          /\ saves = 0
          /\ cached_ip = entry.cached_ip
          /\ disk_last_ip = entry.disk_last_ip
          /\ users = entry.users
          /\ health = 2

C7_Witness ==
    /\ path = "resolve_failed"
    /\ cycle = 2
    /\ cached_ip = IP2
    /\ Len(emails) = 1

\* what the claim counts as a service's success
C8Success(o) ==
    /\ o.kind = "response"
    /\ o.status = 200
    /\ o.ip \in {IP1, IP2}

\* C8: the services are queried in list order without gaps; while the
\* resolver runs, every service queried so far failed and the loop stands at
\* the next one; when the resolver returns an address, it is the address of
\* the last service queried, that service responded with status 200, a
\* match and a valid address, and every service before it failed; no
\* service is queried after it in that cycle; and when resolution fails
\* every service was queried.
C8_ServicesInOrderUntilFirstSuccess ==
    /\ \A k \in 1..Len(queried) : queried[k] = k
    /\ Len(queried) <= NumServices
    /\ pc = "get_public_ip" =>
          /\ svc_i = Len(queried) + 1
          /\ Len(svc_log) = Len(queried)
          /\ \A k \in 1..Len(svc_log) : ~C8Success(svc_log[k])
    /\ pc = "got_ip" =>
          /\ Len(svc_log) = Len(queried)
          /\ C8Success(svc_log[Len(svc_log)])
          /\ \A k \in 1..(Len(svc_log) - 1) : ~C8Success(svc_log[k])
          /\ current_ip = svc_log[Len(svc_log)].ip
          /\ svc_i = Len(queried)
    /\ (resolved_ip # NoneStr /\ path # "none") => Len(queried) = svc_i
    /\ path = "resolve_failed" => Len(queried) = NumServices

C8_Witness ==
    /\ pc = "got_ip"
    /\ queried = <<1, 2>>
    /\ svc_log[1].kind = "timeout"
    /\ current_ip = IP2

(***************************************************************************)
(* Properties of is_valid_ipv4, checked under SpecIPv4.                    *)
(***************************************************************************)
\* exactly four dot-separated components, each one to three decimal digits
\* and nothing else, with a value of at most 255
FourOctets(s) ==
    /\ s # NoneStr
    /\ LET parts == SplitDot(s, 1, <<>>)
       IN  /\ Len(parts) = 4
           /\ \A k \in 1..4 :
                /\ Len(parts[k]) \in 1..3
                /\ \A q \in 1..Len(parts[k]) : parts[k][q] \in Digits
                /\ DecimalValue(parts[k]) <= 255

\* C9: is_valid_ipv4(s) is true exactly when s has four dot-separated
\* integer components, each in 0..255, and no other character.
C9_ValidIffFourOctets ==
    pc = "return" => (ret <=> FourOctets(arg))

(***************************************************************************)
(* Properties of update_ddns_for_user, checked under SpecUpdateUser.       *)
(***************************************************************************)
\* the provider's failure prefixes and the reason each stands for
C10Table ==
    << <<T_badauth, "auth_failed">>, <<T_911, "maintenance">>,
       <<T_notfqdn, "bad_hostname">>, <<T_nohost, "host_not_found">>,
       <<T_dnserr, "dns_error">> >>

\* C10: the call succeeds exactly when a response was read and its stripped
\* text starts with good or nochg; a response read whose stripped text
\* starts with badauth, 911, notfqdn, nohost or dnserr fails with the reason
\* of that prefix, the five reasons differing from each other and from the
\* unclassified one; any other response read fails as unclassified with the
\* stripped text as the reason's detail.
C10_ClassificationByPrefix ==
    pc = "return" =>
        LET t == Strip(arg.o.text)
            read == /\ arg.cur_ip = IP1
                    /\ arg.o.kind = "response"
                    /\ ~arg.o.http_error
            good == StartsWith(t, T_good) \/ StartsWith(t, T_nochg)
            listed == \E k \in 1..Len(C10Table) : StartsWith(t, C10Table[k][1])
        IN  /\ ret.success <=> (read /\ good)
            /\ ret.success => ret.error_msg = [msg |-> "", detail |-> <<>>]
            /\ read =>
                /\ \A k \in 1..Len(C10Table) :
                      StartsWith(t, C10Table[k][1]) =>
                          ret = [success |-> FALSE,
                                 error_msg |-> [msg |-> C10Table[k][2], detail |-> <<>>]]
                /\ (~good /\ ~listed) =>
                      ret = [success |-> FALSE,
                             error_msg |-> [msg |-> "update_failed", detail |-> t]]
            /\ Cardinality({C10Table[k][2] : k \in 1..Len(C10Table)}
                           \cup {"update_failed"}) = Len(C10Table) + 1

C10_Witness ==
    /\ pc = "return"
    /\ arg.cur_ip = IP1
    /\ arg.o.kind = "response"
    /\ ~arg.o.http_error
    /\ arg.o.text = <<" ", "x", "g", "o", "o", "d", "\n">>
    /\ ret = [success |-> FALSE,
              error_msg |-> [msg |-> "update_failed",
                             detail |-> <<"x", "g", "o", "o", "d">>]]

\* C12, as the claim states it: at the end of every completed cycle the
\* last_ip of the canonical file equals the cached address in memory.
C12_DurableEqualsCached == CycleDone => disk_last_ip = cached_ip

\* C12, amended: at the end of every completed cycle whose save_config call
\* returned, the last_ip of the canonical file equals the cached address in
\* memory; when save_config raised, the cached address is the new address all
\* the same.
C12_DurableEqualsCachedAfterSave ==
    CycleDone =>
        /\ saved = "returned" => disk_last_ip = cached_ip
        /\ saved = "raised" => cached_ip = current_ip

C12_Witness ==
    /\ CycleDone
    /\ saved = "returned"
    /\ cached_ip # entry.cached_ip
    /\ disk_last_ip # entry.disk_last_ip

(***************************************************************************)
(* save_config, statement by statement, with the files it works on.        *)
(* shutil.move renames the staging file onto the canonical file; when      *)
(* os.rename raises OSError it copies the staging file over the canonical  *)
(* file and unlinks the staging file.                                      *)
(***************************************************************************)
\* what the specifications of startup and of save_config leave alone
runVars ==
    <<cycle, current_ip, svc_i, queried, svc_log, user_i, calls, result,
      emails, delivered, saves, health, path, entry, resolved_ip, prev, saved, sched,
      issued, ret>>

Unreadable == <<"<unreadable>">>

\* the last_ip a reader of the file finds
DurableLastIp(file) ==
    IF file.state = "complete" THEN file.doc.last_ip ELSE Unreadable

\* lines 282-283
SaveConfigAssign ==
    /\ pc = "save_config"
    /\ config' = [config EXCEPT !.last_ip = SavedLastIp(cached_ip)]
    /\ pc' = "open_temp"
    /\ UNCHANGED <<runVars, users, cached_ip, disk_last_ip, arg, fs,
                   exit_code, sig, exc>>

\* line 288, open(temp_file, 'w'): the staging file is created or truncated,
\* or open raises and no file is touched
SaveConfigOpen ==
    /\ pc = "open_temp"
    /\ \E e \in {"none", "PermissionError", "OSError"} :
        /\ exc' = e
        /\ fs' = IF e = "none"
                 THEN [fs EXCEPT !.staging = PartFile(config)]
                 ELSE fs
        /\ pc' = IF e = "none" THEN "dump" ELSE "except"
    /\ UNCHANGED <<runVars, users, cached_ip, disk_last_ip, arg, config,
                   exit_code, sig>>

\* line 289, yaml.dump into the staging file: the whole document is written,
\* or the write raises OSError with a part of it written, or the dumper
\* raises another exception
SaveConfigDump ==
    /\ pc = "dump"
    /\ \E e \in {"none", "OSError", "Exception"} :
        /\ exc' = e
        /\ fs' = IF e = "none"
                 THEN [fs EXCEPT !.staging = File(config)]
                 ELSE fs
        /\ pc' = CASE e = "none" -> "move"
                   [] e = "OSError" -> "except"
                   [] OTHER -> "except_outer"
    /\ UNCHANGED <<runVars, users, cached_ip, disk_last_ip, arg, config,
                   exit_code, sig>>

\* line 292, os.rename in shutil.move: the canonical file becomes the staging
\* file in one step
CanonicalAfterRename(files) == files.staging

\* line 292, shutil.move: os.rename succeeds, or raises OSError and
\* shutil.move goes on to copy
ShutilMoveRename ==
    /\ pc = "move"
    /\ \E renamed \in BOOLEAN :
        IF renamed
        THEN /\ fs' = [fs EXCEPT !.canonical = CanonicalAfterRename(fs),
                                 !.staging = NoFile]
             /\ pc' = "return"
        ELSE /\ fs' = fs
             /\ pc' = "copy"
    /\ disk_last_ip' = DurableLastIp(fs'.canonical)
    /\ UNCHANGED <<runVars, users, cached_ip, arg, config, exit_code, sig,
                   exc>>

\* line 292, copy2 in shutil.move opens the canonical file for writing, which
\* truncates it, or raises
ShutilMoveCopyOpen ==
    /\ pc = "copy"
    /\ \E e \in {"none", "PermissionError", "OSError"} :
        /\ exc' = e
        /\ fs' = IF e = "none"
                 THEN [fs EXCEPT !.canonical = PartFile(fs.staging.doc)]
                 ELSE fs
        /\ pc' = IF e = "none" THEN "copy_write" ELSE "except"
    /\ disk_last_ip' = DurableLastIp(fs'.canonical)
    /\ UNCHANGED <<runVars, users, cached_ip, arg, config, exit_code, sig>>

\* line 292, copy2 in shutil.move writes the bytes of the staging file into
\* the canonical file: all of them, or it raises OSError with a part written
ShutilMoveCopyWrite ==
    /\ pc = "copy_write"
    /\ \E e \in {"none", "OSError"} :
        /\ exc' = e
        /\ fs' = IF e = "none"
                 THEN [fs EXCEPT !.canonical = fs.staging]
                 ELSE fs
        /\ pc' = IF e = "none" THEN "unlink" ELSE "except"
    /\ disk_last_ip' = DurableLastIp(fs'.canonical)
    /\ UNCHANGED <<runVars, users, cached_ip, arg, config, exit_code, sig>>

\* line 292, os.unlink of the staging file in shutil.move
ShutilMoveUnlink ==
    /\ pc = "unlink"
    /\ \E e \in {"none", "OSError"} :
        /\ exc' = e
        /\ fs' = IF e = "none" THEN [fs EXCEPT !.staging = NoFile] ELSE fs
        /\ pc' = IF e = "none" THEN "return" ELSE "except"
    /\ UNCHANGED <<runVars, users, cached_ip, disk_last_ip, arg, config,
                   exit_code, sig>>

\* lines 295-300, 303-308 and 315-320: the staging file is removed when it
\* exists; an OSError of os.remove is passed over
StagingAfterCleanup(files, removed) ==
    IF files.staging.state # "absent" /\ removed THEN NoFile
    ELSE files.staging

\* lines 294-309: PermissionError and OSError are raised again after the
\* cleanup
SaveConfigExcept ==
    /\ pc = "except"
    /\ \E removed \in BOOLEAN :
        fs' = [fs EXCEPT !.staging = StagingAfterCleanup(fs, removed)]
    /\ pc' = "raised"
    /\ UNCHANGED <<runVars, users, cached_ip, disk_last_ip, arg, config,
                   exit_code, sig, exc>>

\* lines 312-321: any other exception becomes a RuntimeError after the
\* cleanup
SaveConfigExceptOuter ==
    /\ pc = "except_outer"
    /\ \E removed \in BOOLEAN :
        fs' = [fs EXCEPT !.staging = StagingAfterCleanup(fs, removed)]
    /\ exc' = "RuntimeError"
    /\ pc' = "raised"
    /\ UNCHANGED <<runVars, users, cached_ip, disk_last_ip, arg, config,
                   exit_code, sig>>

InSaveConfig ==
    pc \in {"save_config", "open_temp", "dump", "move", "copy", "copy_write",
            "unlink", "except", "except_outer"}

SaveConfigStep ==
    \/ SaveConfigAssign
    \/ SaveConfigOpen
    \/ SaveConfigDump
    \/ ShutilMoveRename
    \/ ShutilMoveCopyOpen
    \/ ShutilMoveCopyWrite
    \/ ShutilMoveUnlink
    \/ SaveConfigExcept
    \/ SaveConfigExceptOuter

\* The addresses the documents of the save_config specification hold.
SaveAddresses == {SENTINEL, IP1, IP2}

\* save_config is entered from run_once, line 628, or from _validate_config,
\* line 217: cached_ip is an address, config is the document that was loaded,
\* the canonical file holds a document with the same users, and a staging
\* file may be left over from an earlier process. arg keeps the canonical
\* file save_config was entered with.
InitSave ==
    /\ CycleAtRest
    /\ pc = "save_config"
    /\ ret = FALSE
    /\ users \in UserLists
    /\ cached_ip \in SaveAddresses
    /\ \E mem \in SaveAddresses, disk \in SaveAddresses \cup {BadCapture},
          left \in {"absent", "partial", "complete"} :
        /\ config = GoodDoc(users, mem)
        /\ fs = [canonical |-> File(GoodDoc(users, disk)),
                 staging |-> CASE left = "absent" -> NoFile
                               [] left = "partial" ->
                                    PartFile(GoodDoc(users, disk))
                               [] OTHER -> File(GoodDoc(users, disk)),
                 example |-> NoFile]
    /\ arg = fs.canonical
    /\ disk_last_ip = DurableLastIp(fs.canonical)
    /\ entry = [cached_ip |-> cached_ip, disk_last_ip |-> disk_last_ip,
                users |-> users]
    /\ exit_code = <<>>
    /\ sched = SchedAtRest
    /\ issued = IssuedAtRest
    /\ sig = SigAtRest
    /\ exc = "none"

\* SpecSave, the specification of save_config, is defined with SaveSignal
\* below.

\* C11: in save_config the canonical file is never partially written: it is
\* the file save_config was entered with or the whole dump of self.config,
\* and it is still the file save_config was entered with up to the replace
\* step and after a failure of the write of the staging file.
C11_CanonicalIntactOrReplaced ==
    /\ fs.canonical.state = "complete"
    /\ fs.canonical \in {arg, File(config)}
    /\ pc \in {"save_config", "open_temp", "dump", "move"} => fs.canonical = arg

(***************************************************************************)
(* Startup: main calls init_config_dir and constructs DDNSClient, whose    *)
(* __init__ calls load_config, _build_api_url and _validate_config, then   *)
(* calls run. An exception that leaves them is turned into the exit        *)
(* status by the except clauses of main.                                   *)
(***************************************************************************)
\* a last_ip that is neither a str nor None, and is true: a YAML number
NonStr == <<"<number>">>

\* line 249, the schedule of a document without one
DefaultSchedule == "*/5 * * * *"

\* croniter(schedule, ...), line 254 and line 139: the expressions of the
\* model it accepts; it raises on every other value, None and "" included
CronParses(schedule) == schedule \in {"*/2 * * * *", "*/5 * * * *"}

\* dict.get(key, default) for a key whose value may be missing
GetOr(v, default) == IF v = "<missing>" THEN default ELSE v

\* the same for a value that is typed as characters
GetStrOr(v, default) == IF v = Missing THEN default ELSE v

\* not v, for a value of the document that is not a str typed as characters
NotSet(v) == v \in {"", "<None>", "<missing>"}

UserError_AcceptsEmpty(user) ==
    IF user.username = "<number>" \/ user.password = "<number>"
    THEN "not_str"
    ELSE IF user.username = " " \/ user.password = " "
    THEN "blank"
    ELSE ""

\* lines 184-192, one user of the for loop: "" when the user passes.
\* "<number>" is a credential that is not a str, " " one of white space only.
UserError(user) ==
    IF NotSet(user.username) \/ NotSet(user.password)
    THEN "incomplete"
    ELSE IF user.username = "<number>" \/ user.password = "<number>"
    THEN "not_str"
    ELSE IF user.username = " " \/ user.password = " "
    THEN "blank"
    ELSE ""

ValidateError_PortOptional(us, schedule, doc) ==
    IF us = <<>> THEN "ValueError"
    ELSE IF \E i \in 1..Len(us) : UserError(us[i]) # "" THEN "ValueError"
    ELSE IF NotSet(schedule) THEN "ValueError"
    ELSE IF ~CronParses(schedule) THEN "ValueError"
    ELSE IF NotSet(doc.server) THEN "ValueError"
    ELSE "none"

\* _validate_config, lines 184-208: the exception of the first check that
\* fails, "none" when all pass
ValidateError(us, schedule, doc) ==
    IF us = <<>> THEN "ValueError"
    ELSE IF \E i \in 1..Len(us) : UserError(us[i]) # "" THEN "ValueError"
    ELSE IF NotSet(schedule) THEN "ValueError"
    ELSE IF ~CronParses(schedule) THEN "ValueError"
    ELSE IF NotSet(doc.server) THEN "ValueError"
    ELSE IF NotSet(doc.port) THEN "ValueError"
    ELSE "none"

\* load_config, lines 229-258: the exception it raises for the canonical
\* file, "none" when it returns
LoadError(file) ==
    IF file.state = "absent" THEN "FileNotFoundError"
    ELSE IF file.doc.shape = "empty" THEN "ValueError"
    ELSE IF file.doc.shape = "no_ddns" THEN "ValueError"
    ELSE IF ~file.doc.users_is_list THEN "ValueError"
    ELSE IF ~CronParses(GetOr(file.doc.schedule, DefaultSchedule))
    THEN "ValueError"
    ELSE "none"

MainReturn_ExitIsError(e, status) == IF e = "KeyboardInterrupt" THEN 0 ELSE 1

\* main, lines 724-763, and exit(main()), line 766: the exit status for an
\* exception that reaches main; SystemExit passes every except clause and
\* carries its own status
MainReturn(e, status) ==
    CASE e \in {"FileNotFoundError", "PermissionError"} -> 1
      [] e = "ValueError" -> 1
      [] e = "RuntimeError" -> 1
      [] e = "KeyboardInterrupt" -> 0
      [] e = "SystemExit" -> status
      [] OTHER -> 1

InitConfigDirRaises_Never(files) == FALSE

\* lines 77-84: neither the configuration nor the example exists
InitConfigDirRaises(files) ==
    files.canonical.state = "absent" /\ files.example.state = "absent"

\* init_config_dir, lines 64-97
InitConfigDir ==
    /\ pc = "main"
    /\ \E dir \in {"none", "PermissionError", "RuntimeError"} :
        IF dir # "none"
        THEN /\ exc' = dir
             /\ pc' = "main_except"
             /\ fs' = fs
        ELSE IF fs.canonical.state # "absent"
        THEN /\ exc' = "none"
             /\ pc' = "load_config"
             /\ fs' = fs
        ELSE IF InitConfigDirRaises(fs)
        THEN /\ exc' = "FileNotFoundError"
             /\ pc' = "main_except"
             /\ fs' = fs
        ELSE \E copy \in {"none", "PermissionError", "RuntimeError"},
                started \in BOOLEAN :
                /\ exc' = copy
                /\ pc' = IF copy = "none" THEN "load_config"
                         ELSE "main_except"
                /\ fs' = IF copy = "none"
                         THEN [fs EXCEPT !.canonical = fs.example]
                         ELSE IF copy = "RuntimeError" /\ started
                                 /\ fs.example.state = "complete"
                         THEN [fs EXCEPT
                                 !.canonical = PartFile(fs.example.doc)]
                         ELSE fs
    /\ disk_last_ip' = DurableLastIp(fs'.canonical)
    /\ UNCHANGED <<runVars, users, cached_ip, arg, config, exit_code, sig>>

\* load_config, lines 221-271; the assignments that come before the raise
\* are made
LoadConfig ==
    /\ pc = "load_config"
    /\ exc' = LoadError(fs.canonical)
    /\ pc' = IF exc' = "none" THEN "validate_config" ELSE "main_except"
    /\ config' = IF fs.canonical.state = "absent" THEN config
                 ELSE fs.canonical.doc
    /\ IF fs.canonical.state # "absent" /\ fs.canonical.doc.shape = "ok"
          /\ fs.canonical.doc.users_is_list
       THEN /\ users' = fs.canonical.doc.users
            /\ cached_ip' = GetStrOr(fs.canonical.doc.last_ip, SENTINEL)
       ELSE UNCHANGED <<users, cached_ip>>
    /\ UNCHANGED <<runVars, disk_last_ip, arg, fs, exit_code, sig>>

\* lines 211-212: the cached address is reset
NeedsReset(cached) ==
    /\ ~Falsy(cached)
    /\ cached # SENTINEL
    /\ ~is_valid_ipv4(cached)

\* _build_api_url and _validate_config, lines 166-219, up to the call of
\* save_config; is_valid_ipv4 raises TypeError on a number
ValidateConfig ==
    /\ pc = "validate_config"
    /\ LET e == ValidateError(users, GetOr(config.schedule, DefaultSchedule),
                              config)
       IN  IF e # "none"
           THEN /\ exc' = e
                /\ pc' = "main_except"
                /\ UNCHANGED <<cached_ip, config>>
           ELSE IF cached_ip = NonStr
           THEN /\ exc' = "TypeError"
                /\ pc' = "main_except"
                /\ UNCHANGED <<cached_ip, config>>
           ELSE IF NeedsReset(cached_ip)
           THEN /\ cached_ip' = SENTINEL
                /\ config' = [config EXCEPT !.last_ip = SENTINEL]
                /\ pc' = "save_config"
                /\ exc' = "none"
           ELSE /\ pc' = "run"
                /\ exc' = "none"
                /\ UNCHANGED <<cached_ip, config>>
    /\ UNCHANGED <<runVars, users, disk_last_ip, arg, fs, exit_code, sig>>

\* lines 216-219: save_config returned, or raised an exception that is
\* logged
ValidateConfigSaved ==
    /\ pc \in {"return", "raised"}
    /\ pc' = "run"
    /\ exc' = "none"
    /\ UNCHANGED <<runVars, users, cached_ip, disk_last_ip, arg, fs, config,
                   exit_code, sig>>

\* main, lines 724-763
MainExcept ==
    /\ pc = "main_except"
    /\ exit_code' = <<MainReturn(exc, 0)>>
    /\ pc' = "exited"
    /\ UNCHANGED <<runVars, users, cached_ip, disk_last_ip, arg, fs, config,
                   sig, exc>>

BootUser(u, p) == [username |-> u, password |-> p]

\* The users sections of the documents of the startup specification.
BootUserLists ==
    {<<BootUser("A", "pw")>>,
     <<BootUser("A", "pw"), BootUser("B", "pw")>>,
     <<>>,
     <<BootUser("<missing>", "pw")>>,
     <<BootUser("A", "<None>")>>,
     <<BootUser("A", "pw"), BootUser("", "pw")>>,
     <<BootUser("A", " ")>>,
     <<BootUser("<number>", "pw")>>}

\* The last_ip values of the documents of the startup specification.
BootLastIps ==
    {Missing, NoneStr, <<>>, SENTINEL, IP1, IP1 \o <<"\n">>, BadCapture,
     <<"a">>, NonStr}

\* The documents config.yaml and config.yaml.example hold at process start.
BootDocs ==
    {[EmptyDoc EXCEPT !.shape = s] : s \in {"empty", "no_ddns"}}
    \cup
    {[shape |-> "ok", users_is_list |-> l, users |-> us, schedule |-> sc,
      server |-> sv, port |-> po, last_ip |-> ip, smtp |-> "set"] :
        l \in {TRUE}, us \in BootUserLists,
        sc \in {"*/2 * * * *", "<missing>", "<None>", "every minute"},
        sv \in {"api.dynu.com", "<missing>"},
        po \in {"8245", "<missing>"},
        ip \in BootLastIps}
    \cup
    {[GoodDoc(<<>>, ip) EXCEPT !.users_is_list = FALSE] : ip \in {SENTINEL}}

\* The state when main is entered. arg keeps the files of that moment.
InitBoot ==
    /\ CycleAtRest
    /\ pc = "main"
    /\ ret = FALSE
    /\ users = <<>>
    /\ cached_ip = NoneStr
    /\ config = EmptyDoc
    /\ \/ \E d \in BootDocs :
            fs = [canonical |-> File(d), staging |-> NoFile,
                  example |-> File(GoodDoc(<<BootUser("A", "pw")>>, SENTINEL))]
       \/ \E d \in BootDocs :
            fs = [canonical |-> NoFile, staging |-> NoFile,
                  example |-> File(d)]
       \/ fs = NoFs
    /\ arg = fs
    /\ disk_last_ip = DurableLastIp(fs.canonical)
    /\ entry = [cached_ip |-> cached_ip, disk_last_ip |-> disk_last_ip,
                users |-> users]
    /\ exit_code = <<>>
    /\ sched = SchedAtRest
    /\ issued = IssuedAtRest
    /\ sig = SigAtRest
    /\ exc = "none"

NextBoot ==
    \/ InitConfigDir
    \/ LoadConfig
    \/ ValidateConfig
    \/ SaveConfigStep
    \/ ValidateConfigSaved
    \/ MainExcept
    \/ RunFirst
    \/ RunOnceEnter

SpecBoot == InitBoot /\ [][NextBoot]_vars

\* the constructor returned: run is called or running
Started == pc \in {"run", "run_once", "get_public_ip"}

\* the document startup loads: the one of config.yaml, or of the example
\* when config.yaml is absent
LoadedDoc ==
    IF arg.canonical.state = "absent" THEN arg.example.doc
    ELSE arg.canonical.doc

SentinelOrValid(ip) == ip = SENTINEL \/ FourOctets(ip)

\* C13: once startup has succeeded the cached address is the sentinel or a
\* valid IPv4 address, and when the loaded last_ip was neither, the cached
\* address is the sentinel and the sentinel is the last_ip of the canonical
\* file.
C13_CachedSentinelOrValidAfterStartup ==
    Started =>
        /\ SentinelOrValid(cached_ip)
        /\ ~SentinelOrValid(GetStrOr(LoadedDoc.last_ip, SENTINEL)) =>
            /\ cached_ip = SENTINEL
            /\ DurableLastIp(fs.canonical) = SENTINEL

\* the failures of validation the claim lists, read off a document
C14Invalid(doc) ==
    \/ doc.shape = "no_ddns"
    \/ /\ doc.shape = "ok"
       /\ \/ doc.users = <<>>
          \/ \E i \in 1..Len(doc.users) :
                \/ doc.users[i].username \in {"<missing>", "<None>", "", " "}
                \/ doc.users[i].password \in {"<missing>", "<None>", "", " "}
          \/ doc.schedule \in {"every minute", "<None>"}
          \/ doc.server = "<missing>"
          \/ doc.port = "<missing>"

\* C14: when the loaded configuration fails validation, the process never
\* gets to run: no cycle is started, no request for the address or for an
\* account is made, save_config is not called, and the exit status is not 0.
C14_InvalidConfigRefusesToStart ==
    C14Invalid(LoadedDoc) =>
        /\ ~Started
        /\ ~InSaveConfig
        /\ cycle = 0
        /\ queried = <<>>
        /\ calls = <<>>
        /\ pc = "exited" => exit_code = <<1>>

C14_Witness ==
    /\ C14Invalid(LoadedDoc)
    /\ config = LoadedDoc
    /\ LoadedDoc.shape = "ok"
    /\ pc = "exited"
    /\ exc = "ValueError"
    /\ exit_code = <<1>>

\* C15, as the claim states it: when config.yaml is absent at process start,
\* startup fails, no cycle runs and no configuration is copied in.
C15_AbsentConfigIsFatal ==
    arg.canonical.state = "absent" =>
        /\ ~Started
        /\ cycle = 0
        /\ fs.canonical.state = "absent"
        /\ pc = "exited" => exit_code = <<1>>

\* C15, amended: when config.yaml and the example are both absent at process
\* start, init_config_dir raises, no file is created, load_config is never
\* reached and the exit status is 1; when only config.yaml is absent, the
\* configuration that is loaded is the copy of the example.
C15_AbsentConfigAndExampleIsFatal ==
    /\ arg.canonical.state = "absent" /\ arg.example.state = "absent" =>
        /\ pc \in {"main", "main_except", "exited"}
        /\ fs = arg
        /\ cycle = 0
        /\ pc = "exited" => exit_code = <<1>>
    /\ /\ arg.canonical.state = "absent"
       /\ arg.example.state # "absent"
       /\ pc \in {"load_config", "validate_config"}
       => fs.canonical = arg.example

C15_Witness ==
    /\ arg.canonical.state = "absent"
    /\ arg.example.state = "absent"
    /\ pc = "exited"
    /\ exc = "FileNotFoundError"
    /\ exit_code = <<1>>

(***************************************************************************)
(* The loop of run with its clock, the requests of a cycle as they are     *)
(* sent and answered, and the termination signals. Time is counted in      *)
(* minutes; the schedule fires at the multiples of Period. The thread      *)
(* sends a request and is blocked in the call until it returns: the        *)
(* actions of the reconciliation machine are the returns of the calls.     *)
(***************************************************************************)
\* what the scheduler and the signal handler leave alone
cycleVars ==
    <<cycle, users, cached_ip, current_ip, disk_last_ip, svc_i, queried,
      svc_log, user_i, calls, result, emails, delivered, saves, health, path, entry,
      resolved_ip, prev, saved, arg, ret, fs, config>>

\* the minutes between two triggers of the schedule "*/2 * * * *"
Period == 2

\* croniter.get_next, line 675: the first trigger after the iterator's
\* current time, which need not be after the time of the clock
CronNext(cur) == ((cur \div Period) + 1) * Period

ShouldSleep_Always(wait_seconds) == TRUE

\* line 678
ShouldSleep(wait_seconds) == wait_seconds > 0

\* requests of a kind sent in the running cycle and not yet answered
InFlight(kind) ==
    IF issued.cycle # cycle THEN 0
    ELSE CASE kind = "resolve" -> issued.resolve - Len(queried)
           [] kind = "update" -> issued.update - Len(calls)
           [] OTHER -> issued.mail - Len(emails)

InFlightTotal == InFlight("resolve") + InFlight("update") + InFlight("mail")

Blocked_Never == FALSE

\* requests.get, lines 395 and 452, and the smtplib calls of send_email,
\* lines 366-372, return when the answer or the timeout has come
Blocked == InFlightTotal > 0

\* the kind of request the thread is about to send, "none" when the next
\* statement is not a request
NextRequest ==
    CASE pc = "get_public_ip" /\ svc_i <= NumServices -> "resolve"
      [] pc = "get_public_ip" /\ svc_i > NumServices -> "mail"
      [] pc = "update_all_users" /\ user_i <= Len(users) -> "update"
      [] pc = "report" -> "mail"
      [] OTHER -> "none"

\* lines 395, 452 and 366: a request is sent
SendRequest ==
    /\ NextRequest # "none"
    /\ ~Blocked
    /\ LET base == IF issued.cycle = cycle THEN issued
                   ELSE [IssuedAtRest EXCEPT !.cycle = cycle]
       IN  issued' = [base EXCEPT ![NextRequest] = @ + 1]
    /\ UNCHANGED <<pc, cycleVars, exit_code, sched, sig, exc>>

\* the calls return
ReturnResolve == InFlight("resolve") = 1 /\ GetPublicIpQuery

ReturnFailureMail == InFlight("mail") = 1 /\ GetPublicIpFail

ReturnUpdate == InFlight("update") = 1 /\ UpdateAllUsersStep

ReturnReportMail == InFlight("mail") = 1 /\ RunOnceReport

\* the clock moves on while a cycle runs; the time a cycle took is added when
\* run_once has returned
ClockTick ==
    /\ pc = "loop"
    /\ sched.now < MaxTime
    /\ sched' = [sched EXCEPT !.now = @ + 1]
    /\ UNCHANGED <<pc, cycleVars, exit_code, issued, sig, exc>>

\* run, lines 675-678
RunGetNext ==
    /\ pc = "loop"
    /\ cycle < MaxRunCycles
    /\ LET next_time == CronNext(sched.cron)
           wait_seconds == next_time - sched.now
       IN  /\ sched' = [sched EXCEPT !.cron = next_time,
                                     !.next_time = next_time,
                                     !.wait_seconds = wait_seconds,
                                     !.get_next = @ + 1,
                                     !.slept = FALSE]
           /\ pc' = IF ShouldSleep(wait_seconds) THEN "sleep" ELSE "run_once"
    /\ UNCHANGED <<cycleVars, exit_code, issued, sig, exc>>

\* run, line 681: time.sleep returns when wait_seconds have passed
RunSleep ==
    /\ pc = "sleep"
    /\ sched' = [sched EXCEPT !.now = @ + sched.wait_seconds,
                              !.sleeps = @ + 1,
                              !.slept = TRUE]
    /\ pc' = "run_once"
    /\ UNCHANGED <<cycleVars, exit_code, issued, sig, exc>>

\* signal_handler, line 700: sys.exit(0)
SignalExitStatus == 0

\* signal_handler, lines 692-700, for SIGTERM and SIGINT (lines 709-710):
\* SystemExit is raised in the thread at the statement or in the call it is
\* at; no except clause of run_once, run or main catches it
Signal ==
    /\ pc # "exited"
    /\ sig' = [pc |-> pc, cycle |-> cycle, in_call |-> Blocked]
    /\ exc' = "SystemExit"
    /\ exit_code' = <<MainReturn("SystemExit", SignalExitStatus)>>
    /\ pc' = "exited"
    /\ UNCHANGED <<cycleVars, sched, issued>>

\* The account lists of the specification of run.
RunUserLists == {us \in UserLists : Len(us) <= MaxRunUsers}

\* The state after DDNSClient() has been constructed, at a minute that is a
\* trigger of the schedule or is not.
InitRun ==
    /\ CycleAtRest
    /\ pc = "run"
    /\ users \in RunUserLists
    /\ cached_ip \in {SENTINEL, IP1}
    /\ disk_last_ip = cached_ip
    /\ entry = [cached_ip |-> cached_ip, disk_last_ip |-> cached_ip,
                users |-> users]
    /\ arg = NoneStr
    /\ ret = FALSE
    /\ config = GoodDoc(users, cached_ip)
    /\ fs = [canonical |-> File(config), staging |-> NoFile,
             example |-> NoFile]
    /\ exit_code = <<>>
    /\ \E t \in 0..(Period - 1) :
        sched = [SchedAtRest EXCEPT !.start = t, !.now = t, !.cron = t]
    /\ issued = IssuedAtRest
    /\ sig = SigAtRest
    /\ exc = "none"

NextRun ==
    \/ RunFirst
    \/ RunOnceEnter
    \/ SendRequest
    \/ ReturnResolve
    \/ ReturnFailureMail
    \/ RunOnceCheck
    \/ ReturnUpdate
    \/ UpdateAllUsersReturn
    \/ ReturnReportMail
    \/ RunOncePersist
    \/ ClockTick
    \/ RunGetNext
    \/ RunSleep
    \/ Signal

SpecRun == InitRun /\ [][NextRun]_vars

\* where the thread is, or was when the signal came
Where == IF pc = "exited" THEN sig.pc ELSE pc

\* the thread is in a run_once call
InRunOnce ==
    Where \in {"get_public_ip", "got_ip", "update_all_users", "report",
               "persist"}

\* C16: the first run_once call is made before any trigger is computed, any
\* sleep and any passing of time, at whatever minute the process started;
\* every later run_once call has the computation of a trigger before it.
C16_FirstCycleAtOnceLaterCyclesAfterGetNext ==
    /\ cycle = 0 =>
        /\ sched.get_next = 0
        /\ sched.sleeps = 0
        /\ sched.now = sched.start
        /\ Where \in {"run", "run_once"}
    /\ cycle = 1 /\ InRunOnce =>
        /\ sched.get_next = 0
        /\ sched.sleeps = 0
        /\ sched.now = sched.start
    /\ cycle >= 1 => sched.get_next >= cycle - 1

C16_Witness ==
    /\ cycle = 2
    /\ pc = "get_public_ip"
    /\ sched.start = 1
    /\ sched.get_next = 1
    /\ prev.path # "none"

\* C17: every trigger that is computed is followed by one run_once call and
\* every run_once call but the first follows one trigger; the thread sleeps
\* exactly when the computed wait is positive, and with a wait that is not
\* positive run_once is called at the minute the trigger was computed.
C17_OneCyclePerTriggerNoSleepWhenLate ==
    /\ sched.get_next =
        IF cycle = 0 THEN 0
        ELSE IF Where \in {"sleep", "run_once"} THEN cycle
        ELSE cycle - 1
    /\ Where = "sleep" => sched.wait_seconds > 0
    /\ Where = "run_once" /\ cycle >= 1 =>
        /\ sched.slept <=> sched.wait_seconds > 0
        /\ ~sched.slept => sched.now = sched.next_time - sched.wait_seconds
        /\ sched.slept => sched.now = sched.next_time

C17_Witness ==
    /\ cycle = 2
    /\ pc = "get_public_ip"
    /\ sched.wait_seconds < 0
    /\ sched.sleeps = 0
    /\ sched.get_next = 1

\* C18: at most one request is in flight at any time, so at most one account
\* update; no request is in flight and the run_once call has returned when
\* the loop of run computes the next trigger or sleeps; a run_once call is
\* entered only when the one before it has returned.
C18_CyclesAndRequestsSequential ==
    /\ InFlightTotal \in {0, 1}
    /\ InFlight("update") \in {0, 1}
    /\ Where \in {"loop", "sleep", "run_once"} /\ cycle >= 1 =>
        /\ InFlightTotal = 0
        /\ path \in {"resolve_failed", "invalid_ip", "skipped", "success",
                     "failed"}
    /\ InFlight("update") = 1 =>
        /\ Where = "update_all_users"
        /\ Len(calls) = user_i - 1

C18_Witness ==
    /\ InFlight("update") = 1
    /\ user_i = 2
    /\ Len(calls) = 1
    /\ pc = "update_all_users"

\* C19: a termination signal that comes while run sleeps between two cycles
\* ends the process at once with exit status 0: the sleep is not finished,
\* no further run_once call is made, no request is in flight or sent, and
\* nothing more happens.
C19_SignalInSleepExitsZero ==
    pc = "exited" /\ sig.pc = "sleep" =>
        /\ exit_code = <<0>>
        /\ exc = "SystemExit"
        /\ cycle = sig.cycle
        /\ sched.now < sched.next_time
        /\ sched.get_next = cycle
        /\ InFlightTotal = 0
        /\ ~ENABLED NextRun

C19_Witness ==
    /\ pc = "exited"
    /\ sig.pc = "sleep"
    /\ cycle = 1
    /\ exit_code = <<0>>

\* C20: a termination signal that comes while a request is in flight does
\* not end the process before the call has returned: the process never exits
\* with a request in flight.
C20_SignalWaitsForCallInFlight ==
    pc = "exited" => ~sig.in_call /\ InFlightTotal = 0

(***************************************************************************)
(* The health checkpoint.                                                  *)
(***************************************************************************)
\* the ways a run_once call ends
ExitPaths == {"resolve_failed", "invalid_ip", "skipped", "success", "failed"}

\* C21: run_once calls write_health_check once at its start, before the
\* first resolver query, and once more at its end on every exit path
\* (resolution failure, invalid resolved address, skipped, update with
\* overall success, update with failures, save that raised): a cycle in
\* progress has written one checkpoint, a cycle that returned has written
\* two.
C21_HealthAtStartAndAtEveryExit ==
    /\ cycle >= 1 /\ ~CycleDone => health = 1 /\ path \in {"running", "updating"}
    /\ CycleDone => health = 2 /\ path \in ExitPaths

C21_Witness ==
    /\ CycleDone
    /\ health = 2
    /\ path = "success"
    /\ saved = "raised"

(***************************************************************************)
(* What update_ddns_for_user writes to the log and what run_once puts in   *)
(* the report for one account. A text is the sequence of its parts, each   *)
(* part a sequence of strings: a fixed wording <<"...">>, an interpolated  *)
(* value, or an address.                                                   *)
(***************************************************************************)
Placeholder == <<"******">>

\* _md5_password, lines 420-422: the hex digest of the password
md5_password(password) == <<"md5", password>>

\* lines 442-449: api_url, "?" and urlencode(params); requests.get builds the
\* same URL from the same params at line 452
FullUrl(username, digest, cur_ip) ==
    <<<<"api_url">>, <<"?username=">>, <<username>>, <<"&password=">>, digest,
      <<"&myip=">>, cur_ip>>

\* str.replace, line 450
StrReplace(text, old, new) ==
    [i \in DOMAIN text |-> IF text[i] = old THEN new ELSE text[i]]

\* str(e), lines 493 and 497: the HTTPError of raise_for_status reads
\* "<status> Error: <reason> for url: <url>"; the other exceptions carry the
\* URL of the request (as a ConnectionError of exhausted retries does) or do
\* not.
ExceptionStr(o, full_url) ==
    IF o.kind = "response"
    THEN <<<<"status error for url: ">>>> \o full_url
    ELSE IF o.url_in_message
    THEN <<<<"max retries exceeded with url: ">>>> \o full_url
    ELSE <<<<"error">>>>

\* lines 431-499: the error_msg that is returned, as a text
ErrorMsgText(r, o, full_url) ==
    IF r.success THEN <<>>
    ELSE IF r.error_msg.msg \in {"network_error", "unknown_error"}
    THEN <<<<r.error_msg.msg>>>> \o ExceptionStr(o, full_url)
    ELSE <<<<r.error_msg.msg>>, r.error_msg.detail>>

\* lines 429-499: the lines update_ddns_for_user logs, in order
UpdateLog(username, password, cur_ip, o) ==
    LET r == update_ddns_for_user(cur_ip, o)
        digest == md5_password(password)
        full_url == FullUrl(username, digest, cur_ip)
        requested == ~Falsy(cur_ip) /\ is_valid_ipv4(cur_ip)
        url_line == <<<<"update url">>, <<username>>>>
                        \o StrReplace(full_url, digest, Placeholder)
        response_line == <<<<"server response">>, <<username>>, Strip(o.text)>>
        result_line == <<<<"user">>, <<username>>>>
                           \o ErrorMsgText(r, o, full_url)
    IN  (IF requested THEN <<url_line>> ELSE <<>>)
        \o (IF requested /\ o.kind = "response" /\ ~o.http_error
            THEN <<response_line>> ELSE <<>>)
        \o <<result_line>>

\* run_once, lines 596-600: the line of the report for a failed account
FailedUserLine(username, r, o, full_url) ==
    <<<<username>>>> \o ErrorMsgText(r, o, full_url)

\* The outcomes update_ddns_for_user is applied to here: those of
\* WideOutcomes, an exception carrying the URL of its request or not.
LoggedOutcomes ==
    {[kind |-> o.kind, http_error |-> o.http_error, text |-> o.text,
      url_in_message |-> u] :
        o \in WideOutcomes, u \in BOOLEAN}

InitUpdateLog ==
    /\ MachineAtRest
    /\ pc = "call"
    /\ arg \in [username : {"A"}, password : {"pw", "pw2"},
                cur_ip : {IP1, NoneStr, BadCapture}, o : LoggedOutcomes]
    /\ ret = FALSE

CallUpdateLogged ==
    /\ pc = "call"
    /\ LET r == update_ddns_for_user(arg.cur_ip, arg.o)
           full_url == FullUrl(arg.username, md5_password(arg.password),
                               arg.cur_ip)
       IN  ret' = [result |-> r,
                   log |-> UpdateLog(arg.username, arg.password, arg.cur_ip,
                                     arg.o),
                   body |-> IF r.success THEN <<>>
                            ELSE <<FailedUserLine(arg.username, r, arg.o,
                                                  full_url)>>]
    /\ pc' = "return"
    /\ UNCHANGED <<cycle, users, cached_ip, current_ip, disk_last_ip, svc_i,
                   queried, svc_log, user_i, calls, result, emails, delivered, saves,
                   health, path, entry, resolved_ip, prev, arg,
                   saved, fs, config, exit_code, sched, issued, sig, exc>>

SpecUpdateLog == InitUpdateLog /\ [][CallUpdateLogged]_vars


\* C22: no log line and no line of the notification body holds the raw
\* password of the account or its MD5 digest, whatever the request ended
\* with.
C22_NoSecretInLogOrNotification ==
    pc = "return" =>
        \A texts \in {ret.log, ret.body} :
            \A i \in DOMAIN texts :
                \A j \in DOMAIN texts[i] :
                    texts[i][j] \notin {<<arg.password>>,
                                        md5_password(arg.password)}

(***************************************************************************)
(* yaml.safe_load (line 236) and yaml.dump (line 289) on the scalars of    *)
(* the configuration. A text is the sequence of the entries of the file,   *)
(* [key, style, text]: the path of a key, and the scalar as it is written  *)
(* (plain, single- or double-quoted). A loaded document is the sequence of *)
(* [key, value], a value being [type, n, s]: None, a bool (n is 0 or 1),   *)
(* an int n or the str s. The scalars written here are nulls, bools,       *)
(* decimal and octal integers and strings.                                 *)
(***************************************************************************)
PyNone == [type |-> "none", n |-> 0, s |-> <<>>]
PyBool(b) == [type |-> "bool", n |-> IF b THEN 1 ELSE 0, s |-> <<>>]
PyIntV(n) == [type |-> "int", n |-> n, s |-> <<>>]
PyStr(s) == [type |-> "str", n |-> 0, s |-> s]

YamlNullTexts == {<<>>, <<"~">>, <<"n", "u", "l", "l">>, <<"N", "u", "l", "l">>, <<"N", "U", "L", "L">>}

YamlTrueTexts ==
    {<<"y", "e", "s">>, <<"Y", "e", "s">>, <<"Y", "E", "S">>,
     <<"t", "r", "u", "e">>, <<"T", "r", "u", "e">>, <<"T", "R", "U", "E">>,
     <<"o", "n">>, <<"O", "n">>, <<"O", "N">>}

YamlFalseTexts ==
    {<<"n", "o">>, <<"N", "o">>, <<"N", "O">>, <<"f", "a", "l", "s", "e">>,
     <<"F", "a", "l", "s", "e">>, <<"F", "A", "L", "S", "E">>,
     <<"o", "f", "f">>, <<"O", "f", "f">>, <<"O", "F", "F">>}

OctalValue(ds) ==
    LET RECURSIVE Val(_, _)
        Val(k, acc) == IF k > Len(ds) THEN acc
                       ELSE Val(k + 1, acc * 8 + DigitVal(ds[k]))
    IN  Val(1, 0)

\* the resolver's pattern for int, on digits: 0, 0[0-7]+ or [1-9][0-9]*
YamlIntText(t) ==
    /\ t # <<>>
    /\ \A k \in 1..Len(t) : t[k] \in Digits
    /\ \/ t[1] # "0"
       \/ Len(t) = 1
       \/ \A k \in 1..Len(t) : DigitVal(t[k]) <= 7

\* the implicit resolver and the constructors, for a plain scalar
Resolve(t) ==
    IF t \in YamlNullTexts THEN PyNone
    ELSE IF t \in YamlTrueTexts THEN PyBool(TRUE)
    ELSE IF t \in YamlFalseTexts THEN PyBool(FALSE)
    ELSE IF YamlIntText(t)
    THEN IF t[1] = "0" /\ Len(t) > 1 THEN PyIntV(OctalValue(t))
         ELSE PyIntV(DecimalValue(t))
    ELSE PyStr(t)

\* a quoted scalar is a str
Construct(scalar) ==
    IF scalar.style = "plain" THEN Resolve(scalar.text) ELSE PyStr(scalar.text)

\* yaml.safe_load, line 236
SafeLoad(text) ==
    [i \in DOMAIN text |-> [key |-> text[i].key, value |-> Construct(text[i])]]

\* str(n) for n >= 0
ToDigits(n) ==
    LET digit(d) == CHOOSE c \in Digits : DigitVal(c) = d
        RECURSIVE Str(_)
        Str(k) == IF k < 10 THEN <<digit(k)>>
                  ELSE Append(Str(k \div 10), digit(k % 10))
    IN  Str(n)

\* characters a plain scalar does not start with
YamlIndicators ==
    {"#", ",", "[", "]", "{", "}", "&", "*", "!", "|", ">", "'", "\"", "%",
     "@"}

\* the emitter's analyze_scalar: may the str be written plain in a block
PlainAllowed(s) ==
    /\ s # <<>>
    /\ s[1] \notin YamlIndicators \cup {" "}
    /\ s[Len(s)] # " "
    /\ ~(s[1] \in {"-", "?", ":"} /\ (Len(s) = 1 \/ s[2] = " "))
    /\ \A k \in 1..Len(s) :
        /\ ~(s[k] = ":" /\ (k = Len(s) \/ s[k + 1] = " "))
        /\ ~(s[k] = "#" /\ k > 1 /\ s[k - 1] = " ")
        /\ s[k] # "\n"

Represent_AlwaysPlain(v) ==
    IF v.type = "none" THEN [style |-> "plain", text |-> <<"n", "u", "l", "l">>]
    ELSE IF v.type = "bool"
    THEN [style |-> "plain",
          text |-> IF v.n = 1 THEN <<"t", "r", "u", "e">>
                   ELSE <<"f", "a", "l", "s", "e">>]
    ELSE IF v.type = "int" THEN [style |-> "plain", text |-> ToDigits(v.n)]
    ELSE [style |-> "plain", text |-> v.s]

\* the representers and the emitter's choose_scalar_style: a str is written
\* plain when the plain scalar resolves to a str again and the emitter
\* allows it, and quoted otherwise
Represent(v) ==
    IF v.type = "none" THEN [style |-> "plain", text |-> <<"n", "u", "l", "l">>]
    ELSE IF v.type = "bool"
    THEN [style |-> "plain",
          text |-> IF v.n = 1 THEN <<"t", "r", "u", "e">>
                   ELSE <<"f", "a", "l", "s", "e">>]
    ELSE IF v.type = "int" THEN [style |-> "plain", text |-> ToDigits(v.n)]
    ELSE IF Resolve(v.s).type = "str" /\ PlainAllowed(v.s)
    THEN [style |-> "plain", text |-> v.s]
    ELSE IF \A k \in 1..Len(v.s) : v.s[k] # "\n"
    THEN [style |-> "single", text |-> v.s]
    ELSE [style |-> "double", text |-> v.s]

\* yaml.dump, line 289; sort_keys=False keeps the order of the dict
Dump(doc) ==
    [i \in DOMAIN doc |->
        [key |-> doc[i].key, style |-> Represent(doc[i].value).style,
         text |-> Represent(doc[i].value).text]]

HasKey(doc, key) == \E i \in DOMAIN doc : doc[i].key = key

\* dict.get(key, default) on a loaded document
DocGet(doc, key, default) ==
    IF HasKey(doc, key)
    THEN doc[CHOOSE i \in DOMAIN doc : doc[i].key = key].value
    ELSE default

\* the value of self.cached_ip, which the machine keeps as characters
CachedOf(v) == IF v.type = "none" THEN NoneStr ELSE v.s

CachedValue(cached) == IF cached = NoneStr THEN PyNone ELSE PyStr(cached)

\* line 282: a key that is not in the dict is added at its end
SetLastIp(doc, v) ==
    IF HasKey(doc, "ddns.last_ip")
    THEN [i \in DOMAIN doc |->
            IF doc[i].key = "ddns.last_ip" THEN [doc[i] EXCEPT !.value = v]
            ELSE doc[i]]
    ELSE LET ddns == SelectSeq(doc, LAMBDA e : e.key # "smtp.server"
                                              /\ e.key # "smtp.use_tls")
             smtp == SelectSeq(doc, LAMBDA e : e.key = "smtp.server"
                                              \/ e.key = "smtp.use_tls")
         IN  ddns \o <<[key |-> "ddns.last_ip", value |-> v]>> \o smtp

\* The files load_config is applied to: the entries of BaseText, one of
\* them written as any of YamlScalars or left out, and last_ip written as a
\* str, as a null or left out.
YamlScalars ==
    {[style |-> "plain", text |-> t] :
        t \in {<<"8", "2", "4", "5">>, <<"0", "1", "7">>, <<"0", "8">>,
              <<"0">>,
              <<"a", "p", "i", ".", "d", "y", "n", "u", ".", "c", "o", "m">>,
              <<"n", "u", "l", "l">>, <<"~">>, <<>>, <<"y", "e", "s">>,
              <<"o", "f", "f">>, <<"1", ".", "2", ".", "3", ".", "4">>,
              <<"a", ":", " ", "b">>}}
    \cup {[style |-> "single", text |-> t] :
        t \in {<<"8", "2", "4", "5">>, <<"n", "u", "l", "l">>, <<>>,
              <<"t", "r", "u", "e">>}}
    \cup {[style |-> "double", text |-> t] :
        t \in {<<"*", "/", "2", " ", "*", " ", "*", " ", "*", " ", "*">>,
              <<" ", "x">>, <<"-", " ", "y">>}}

LastIpScalars ==
    {[style |-> "plain", text |-> IP1],
     [style |-> "single", text |-> SENTINEL],
     [style |-> "plain", text |-> <<"n", "u", "l", "l">>],
     [style |-> "plain", text |-> <<"~">>],
     [style |-> "double", text |-> <<"x">>]}

BaseText ==
    <<[key |-> "ddns.server", style |-> "plain",
       text |-> <<"a", "p", "i", ".", "d", "y", "n", "u", ".", "c", "o", "m">>],
      [key |-> "ddns.port", style |-> "plain", text |-> <<"8", "2", "4", "5">>],
      [key |-> "ddns.protocol", style |-> "plain", text |-> <<"h", "t", "t", "p">>],
      [key |-> "ddns.path", style |-> "plain", text |-> <<"/", "n", "i", "c", "/", "u", "p", "d", "a", "t", "e">>],
      [key |-> "ddns.schedule", style |-> "double",
       text |-> <<"*", "/", "2", " ", "*", " ", "*", " ", "*", " ", "*">>],
      [key |-> "ddns.users.1.username", style |-> "plain", text |-> <<"A">>],
      [key |-> "ddns.users.1.password", style |-> "plain",
       text |-> <<"p", "w">>],
      [key |-> "smtp.server", style |-> "plain", text |-> <<"m", "x">>],
      [key |-> "smtp.use_tls", style |-> "plain",
       text |-> <<"t", "r", "u", "e">>]>>

\* text without its k-th entry
Without(text, k) == [i \in 1..(Len(text) - 1) |->
                        IF i < k THEN text[i] ELSE text[i + 1]]

\* text with last_ip written as the scalar given, after the users
WithLastIp(text, scalar) ==
    LET n == Len(SelectSeq(text, LAMBDA e : e.key # "smtp.server"
                                           /\ e.key # "smtp.use_tls"))
    IN  SubSeq(text, 1, n)
        \o <<[key |-> "ddns.last_ip", style |-> scalar.style,
              text |-> scalar.text]>>
        \o SubSeq(text, n + 1, Len(text))

YamlTexts ==
    LET varied ==
            {[BaseText EXCEPT ![k] = [key |-> BaseText[k].key,
                                      style |-> sc.style, text |-> sc.text]] :
                k \in DOMAIN BaseText, sc \in YamlScalars}
            \cup {Without(BaseText, k) : k \in DOMAIN BaseText}
    IN  varied \cup {WithLastIp(t, sc) : t \in varied, sc \in LastIpScalars}

InitYaml ==
    /\ MachineAtRest
    /\ pc = "load_config"
    /\ arg \in YamlTexts
    /\ ret = FALSE

\* load_config, lines 235-250: safe_load and the cached address
YamlLoadConfig ==
    /\ pc = "load_config"
    /\ config' = SafeLoad(arg)
    /\ cached_ip' = CachedOf(DocGet(config', "ddns.last_ip", PyStr(SENTINEL)))
    /\ pc' = "loaded"
    /\ UNCHANGED <<cycle, users, current_ip, disk_last_ip, svc_i,
                   queried, svc_log, user_i, calls, result, emails, delivered, saves,
                   health, path, entry, resolved_ip, prev, arg, ret,
                   saved, fs, exit_code, sched, issued, sig, exc>>

\* _validate_config, line 215, and run_once, line 627: the assignments to
\* self.cached_ip that come before a save
YamlAssignCached ==
    /\ pc = "loaded"
    /\ \E ip \in {SENTINEL, IP1, IP2} : cached_ip' = ip
    /\ pc' = "save_config"
    /\ UNCHANGED <<cycle, users, current_ip, disk_last_ip, svc_i,
                   queried, svc_log, user_i, calls, result, emails, delivered, saves,
                   health, path, entry, resolved_ip, prev, arg, ret,
                   saved, fs, config, exit_code, sched, issued, sig, exc>>

\* save_config, lines 282-292, for a save that returns: ret is the text of
\* the canonical file
YamlSaveConfig ==
    /\ pc = "save_config"
    /\ config' = SetLastIp(config, CachedValue(cached_ip))
    /\ ret' = Dump(config')
    /\ pc' = "return"
    /\ UNCHANGED <<cycle, users, cached_ip, current_ip, disk_last_ip, svc_i,
                   queried, svc_log, user_i, calls, result, emails, delivered, saves,
                   health, path, entry, resolved_ip, prev, arg,
                   saved, fs, exit_code, sched, issued, sig, exc>>

SpecYaml ==
    InitYaml /\ [][YamlLoadConfig \/ YamlAssignCached \/ YamlSaveConfig]_vars

\* the fields of a loaded document other than last_ip, in order
OtherFields(doc) == SelectSeq(doc, LAMBDA e : e.key # "ddns.last_ip")

\* C23: after a save, the file loads to the fields that were loaded at
\* process start, each with the value it had (server, port, protocol,
\* path, schedule, users, smtp section; a key that was absent stays
\* absent), and last_ip holds the cached address.
C23_FieldsRoundTripAndLastIpIsCached ==
    pc = "return" =>
        /\ OtherFields(SafeLoad(ret)) = OtherFields(SafeLoad(arg))
        /\ HasKey(SafeLoad(ret), "ddns.last_ip")
        /\ DocGet(SafeLoad(ret), "ddns.last_ip", PyNone) = PyStr(cached_ip)

C23_Witness ==
    /\ pc = "return"
    /\ \E i \in DOMAIN arg :
        /\ arg[i].key = "ddns.port"
        /\ arg[i].style = "single"
        /\ ret[i].style = "single"
    /\ ~HasKey(SafeLoad(arg), "ddns.last_ip")
    /\ cached_ip = IP1
    /\ ret # arg

(***************************************************************************)
(* update_all_users applied to account lists that hold incomplete          *)
(* accounts too, which _validate_config does not let through.              *)
(***************************************************************************)
AnyUsers ==
    {[username |-> UserPool[i], password |-> "pw"] : i \in 1..MaxUsers}
    \cup {[username |-> "<None>", password |-> "pw"],
          [username |-> "A", password |-> ""]}

AnyUserLists == UNION {[1..n -> AnyUsers] : n \in 0..MaxUsers}

InitUpdateAll ==
    /\ pc = "update_all_users"
    /\ users \in AnyUserLists
    /\ current_ip = IP1
    /\ cycle = 0
    /\ svc_i = 1
    /\ queried = <<>>
    /\ svc_log = <<>>
    /\ user_i = 1
    /\ calls = <<>>
    /\ result = EmptyResult
    /\ emails = <<>>
    /\ delivered = <<>>
    /\ saves = 0
    /\ health = 0
    /\ path = "updating"
    /\ resolved_ip = IP1
    /\ prev = [path |-> "none", ip |-> NoneStr, saved |-> "none"]
    /\ saved = "none"
    /\ cached_ip = SENTINEL
    /\ disk_last_ip = SENTINEL
    /\ entry = [cached_ip |-> SENTINEL, disk_last_ip |-> SENTINEL,
                users |-> users]
    /\ arg = NoneStr
    /\ ret = FALSE
    /\ OthersAtRest

SpecUpdateAll ==
    InitUpdateAll /\ [][UpdateAllUsersStep \/ UpdateAllUsersReturn]_vars

\* the calls of update_ddns_for_user that returned success
SucceededCalls ==
    SelectSeq(calls, LAMBDA c : update_ddns_for_user(c.myip, c.outcome).success)

\* C24: when update_all_users returns, skipped_count is the number of
\* accounts without a username or a password, and all_success is true
\* exactly when the number of succeeded accounts equals the number of
\* accounts less skipped_count and that number is positive: false for an
\* empty list and when every account was skipped, true when every attempted
\* account succeeded, skipped accounts or not.
C24_AllSuccessCountsAttemptedOnly ==
    pc = "report" =>
        LET total_valid_users == Len(users) - result.skipped_count
        IN  /\ total_valid_users = Len(Attempted(users))
            /\ Len(calls) = total_valid_users
            /\ Len(result.success_users) = Len(SucceededCalls)
            /\ result.all_success =
                   (Len(SucceededCalls) = total_valid_users
                    /\ total_valid_users > 0)
            /\ total_valid_users = 0 => ~result.all_success
            /\ (total_valid_users > 0 /\ SucceededCalls = calls)
                   => result.all_success

C24_Witness ==
    /\ pc = "report"
    /\ result.skipped_count > 0
    /\ Len(users) > result.skipped_count
    /\ result.all_success

\* C25: when a cycle ends in overall success and save_config raises, the
\* cached address is the address resolved in this cycle, the cycle has
\* reported success (the success notification, the success path, the
\* closing health checkpoint) and run_once has returned to run: the process
\* has not exited and no exception is pending.
C25_FailedSaveKeepsCachedAndSuccess ==
    (CycleDone /\ saved = "raised") =>
        /\ result.all_success
        /\ cached_ip = resolved_ip
        /\ cached_ip = current_ip
        /\ cached_ip # entry.cached_ip
        /\ path = "success"
        /\ Len(emails) = 1
        /\ emails[1].subject = "update_success"
        /\ health = 2
        /\ saves = 1
        /\ exc = "none"
        /\ exit_code = <<>>

C25_Witness ==
    /\ CycleDone
    /\ cycle = 2
    /\ saved = "raised"
    /\ cached_ip = IP2
    /\ entry.cached_ip = IP1
    /\ disk_last_ip = SENTINEL

(***************************************************************************)
(* save_config and a termination signal.                                   *)
(***************************************************************************)
\* signal_handler, lines 692-700, while save_config runs: sys.exit(0) raises
\* SystemExit where the thread is, and the except clauses of lines 294-321
\* (PermissionError, OSError, Exception) do not catch it
SaveSignal ==
    /\ InSaveConfig
    /\ sig' = [pc |-> pc, cycle |-> cycle, in_call |-> FALSE]
    /\ exc' = "SystemExit"
    /\ exit_code' = <<MainReturn("SystemExit", SignalExitStatus)>>
    /\ pc' = "exited"
    /\ UNCHANGED <<runVars, users, cached_ip, disk_last_ip, arg, config, fs>>

SpecSave == InitSave /\ [][SaveConfigStep \/ SaveSignal]_vars

\* C26: after a save that failed, whether save_config raised
\* (PermissionError, OSError, or the RuntimeError it makes of another
\* exception) or was interrupted between the write of the staging file and
\* the replace step, no staging file is left, and the exception that
\* reaches the caller is one of these.
C26_NoStagingAfterFailedSave ==
    /\ pc = "raised" =>
        /\ fs.staging.state = "absent"
        /\ exc \in {"PermissionError", "OSError", "RuntimeError"}
    /\ (pc = "exited" /\ sig.pc = "move") => fs.staging.state = "absent"

(***************************************************************************)
(* The failure reasons of update_ddns_for_user.                            *)
(***************************************************************************)
\* the reasons given for a response of the provider
ProviderReasons ==
    {"auth_failed", "maintenance", "bad_hostname", "host_not_found",
     "dns_error", "update_failed"}

\* the request did not bring a response the provider's text is read from
TransportFailure(o) ==
    \/ o.kind \in {"timeout", "request_exception"}
    \/ o.kind = "response" /\ o.http_error

\* C27: a call of update_ddns_for_user returns, whatever the request ended
\* with: success with no reason, or failure with one reason. After a
\* timeout, a network error or an HTTP error status the result is a failure
\* whose reason is "timeout" or "network_error", none of the reasons given
\* for a response of the provider; a response that was read yields success
\* or one of the provider reasons.
C27_AlwaysReturnsAndTransportReasonsDistinct ==
    pc = "return" =>
        /\ exc = "none"
        /\ \/ ret = Ok
           \/ /\ ~ret.success
              /\ ret.error_msg.msg \in
                    ProviderReasons
                    \cup {"timeout", "network_error", "unknown_error",
                          "current_ip_empty", "ip_invalid"}
        /\ arg.cur_ip = IP1 =>
            /\ TransportFailure(arg.o) =>
                /\ ~ret.success
                /\ ret.error_msg.msg \in {"timeout", "network_error"}
                /\ ret.error_msg.msg \notin ProviderReasons
            /\ arg.o.kind = "timeout" <=> ret.error_msg.msg = "timeout"
            /\ arg.o.kind = "exception" <=> ret.error_msg.msg = "unknown_error"
            /\ (arg.o.kind = "response" /\ ~arg.o.http_error) =>
                   ret.error_msg.msg \in ProviderReasons \cup {""}

C27_Witness ==
    /\ pc = "return"
    /\ arg.cur_ip = IP1
    /\ arg.o.kind = "response"
    /\ arg.o.http_error
    /\ Strip(arg.o.text) = T_badauth
    /\ ret = Fail("network_error", arg.o.text)

\* C28: the trigger run waits for is computed from the time of the query:
\* it is the first instant of the schedule after that time, so the wait is
\* positive and a cycle that ran past one or more instants is followed by
\* one cycle at the next instant to come.
C28_NextTriggerIsFirstAfterNow ==
    sched.get_next >= 1 =>
        /\ sched.next_time = CronNext(sched.next_time - sched.wait_seconds)
        /\ sched.wait_seconds > 0

(***************************************************************************)
(* The reconciliation machine without a termination signal, for one        *)
(* account. When run_once has returned, the single thread takes its next   *)
(* step: the trigger is computed, time.sleep returns after the wait, and   *)
(* run_once is called.                                                     *)
(***************************************************************************)
InitLive ==
    /\ Init
    /\ users = <<[username |-> "A", password |-> "pw"]>>

\* run, lines 673-684: time.sleep returns and run_once is called
SpecLive ==
    InitLive /\ [][Next]_vars /\ WF_vars(RunLoop) /\ WF_vars(RunOnceEnter)

\* run_once has ended this cycle in a failure the process recovers from: no
\* address resolved, an account that failed, a save that raised, or a
\* notification that was not delivered
RecoverableFailure ==
    \/ path \in {"resolve_failed", "failed"}
    \/ path = "success" /\ saved = "raised"
    \/ path \in ExitPaths /\ \E i \in DOMAIN delivered : ~delivered[i]

\* C29: without a termination signal, a cycle that ended in a recoverable
\* failure is followed by another cycle: run goes on to the next trigger
\* and calls run_once again (for every cycle but the last one checked).
C29_AnotherCycleAfterRecoverableFailure ==
    \A k \in 1..(MaxCycles - 1) :
        (cycle = k /\ RecoverableFailure) ~> (cycle = k + 1 /\ InRunOnce)

C29_Witness ==
    /\ cycle = 2
    /\ InRunOnce
    /\ prev.path = "failed"
    /\ pc # "exited"

\* C30: the myip of every update request of a cycle is the address
\* get_public_ip returned in that cycle, which is_valid_ipv4 accepted and
\* which is four decimal components from 0 to 255; a cached address that a
\* cycle has changed is that address too. An address left in current_ip by
\* an earlier cycle is never sent or cached.
C30_OnlyTheAddressResolvedThisCycle ==
    /\ \A i \in DOMAIN calls :
        /\ resolved_ip # NoneStr
        /\ calls[i].myip = resolved_ip
        /\ is_valid_ipv4(calls[i].myip)
        /\ FourOctets(calls[i].myip)
    /\ (cycle >= 1 /\ cached_ip # entry.cached_ip) =>
        /\ resolved_ip # NoneStr
        /\ cached_ip = resolved_ip
        /\ is_valid_ipv4(cached_ip)
        /\ FourOctets(cached_ip)
    /\ (resolved_ip = NoneStr /\ cycle >= 1) =>
        /\ calls = <<>>
        /\ cached_ip = entry.cached_ip

C30_Witness ==
    /\ CycleDone
    /\ cycle = 2
    /\ prev.ip = IP1
    /\ prev.path = "failed"
    /\ resolved_ip = IP2
    /\ calls # <<>>
    /\ calls[1].myip = IP2
    /\ cached_ip = IP2

\* C31: in save_config the account list in memory is the list of startup
\* and the document in memory holds the accounts, the schedule and the
\* server and port the URL was built from as they were loaded; when
\* save_config has returned or raised, the canonical file holds the
\* accounts and the schedule it held when save_config was entered.
C31_AccountsScheduleUrlFixed ==
    /\ users = entry.users
    /\ config.users = arg.doc.users
    /\ config.schedule = arg.doc.schedule
    /\ config.server = arg.doc.server
    /\ config.port = arg.doc.port
    /\ pc \in {"return", "raised"} =>
        /\ fs.canonical.state = "complete"
        /\ fs.canonical.doc.users = arg.doc.users
        /\ fs.canonical.doc.schedule = arg.doc.schedule

\* C32: in a cycle with overall success whose notification was not
\* delivered, the cached address is set to the resolved address and
\* save_config is called once all the same; and in every cycle the one
\* send_email call of the report has been made before save_config is
\* called.
C32_UndeliveredNotificationStillPersists ==
    /\ (CycleDone /\ path = "success" /\ delivered = <<FALSE>>) =>
        /\ saves = 1
        /\ saved \in {"returned", "raised"}
        /\ cached_ip = resolved_ip
        /\ Len(emails) = 1
    /\ pc = "persist" => saves = 0 /\ Len(emails) = 1 /\ Len(delivered) = 1
    /\ saves >= 1 => Len(emails) = 1 /\ Len(delivered) = 1

C32_Witness ==
    /\ CycleDone
    /\ path = "success"
    /\ delivered = <<FALSE>>
    /\ saved = "returned"
    /\ cached_ip = IP2
    /\ disk_last_ip = IP2
    /\ entry.cached_ip = IP1

(***************************************************************************)
(* Startup followed by the cycles of run: main is entered with a           *)
(* config.yaml whose accounts, server and port are any of those of         *)
(* BootDocs, and the process that starts runs its cycles.                  *)
(***************************************************************************)
InitStart ==
    /\ InitBoot
    /\ fs.canonical.state = "complete"
    /\ fs.canonical.doc.schedule = "*/2 * * * *"
    /\ fs.canonical.doc.last_ip \in {SENTINEL, BadCapture}

NextStart ==
    \/ NextBoot
    \/ RunLoop
    \/ GetPublicIpQuery
    \/ GetPublicIpFail
    \/ RunOnceCheck
    \/ UpdateAllUsersStep
    \/ UpdateAllUsersReturn
    \/ RunOnceReport
    \/ RunOncePersist

SpecStart == InitStart /\ [][NextStart]_vars

\* C33: in every cycle of a process that started, no account is skipped:
\* every account has a username and a password, skipped_count is 0, and
\* when update_all_users has returned, all_success is true exactly when
\* every configured account was called, in order, and returned success.
C33_NoAccountSkippedAfterStartup ==
    cycle >= 1 =>
        /\ users # <<>>
        /\ \A i \in DOMAIN users :
            ~(CredMissing(users[i].username) \/ CredMissing(users[i].password))
        /\ result.skipped_count = 0
        /\ UpdateReturned =>
            result.all_success =
                (/\ Len(calls) = Len(users)
                 /\ \A i \in DOMAIN calls :
                     /\ calls[i].username = users[i].username
                     /\ update_ddns_for_user(calls[i].myip,
                                             calls[i].outcome).success)

C33_Witness ==
    /\ cycle = 2
    /\ UpdatingDone
    /\ users = arg.canonical.doc.users
    /\ Len(users) = 2
    /\ Len(result.success_users) = 1
    /\ Len(result.failed_users) = 1
    /\ result.skipped_count = 0
    /\ ~result.all_success

\* the running cycle follows a cycle in which an account failed and has
\* resolved the address that cycle had resolved
RepeatsFailedCycle ==
    /\ cycle >= 2
    /\ prev.path = "failed"
    /\ resolved_ip = prev.ip

\* C34: a cycle in which an account failed leaves the cached address as it
\* was at the cycle's entry and saves nothing; the next cycle that resolves
\* the same address is not skipped, calls every configured account with that
\* address, accounts that had succeeded included, and sends one more
\* notification; when all its accounts succeed the cached address is that
\* address, and when one fails the cached address is again left as it was.
C34_FailedCycleIsRepeatedInFull ==
    /\ (CycleDone /\ path = "failed") =>
        /\ cached_ip = entry.cached_ip
        /\ saves = 0
    /\ RepeatsFailedCycle =>
        /\ path \in {"running", "updating", "failed", "success"}
        /\ cached_ip # resolved_ip \/ path = "success"
        /\ UpdateReturned =>
            /\ CallAccounts(calls) = users
            /\ \A i \in DOMAIN calls : calls[i].myip = resolved_ip
        /\ CycleDone =>
            /\ path \in {"failed", "success"}
            /\ Len(emails) = 1
            /\ path = "success" => cached_ip = resolved_ip

C34_Witness ==
    /\ RepeatsFailedCycle
    /\ CycleDone
    /\ path = "success"
    /\ Len(users) = 2
    /\ Len(calls) = 2
    /\ entry.cached_ip = SENTINEL
    /\ cached_ip = resolved_ip

(***************************************************************************)
(* A process through its lifetimes: main is entered with a config.yaml     *)
(* that passes validation, the cycles of run follow with save_config taken *)
(* statement by statement, and the process may be stopped in its sleep and *)
(* started again on the files it left. cycle counts the run_once calls of  *)
(* the running process; prev, path, saved and resolved_ip keep what the    *)
(* last cycle did across the restart.                                      *)
(***************************************************************************)
InitLifetimes ==
    /\ InitBoot
    /\ fs.canonical.state = "complete"
    /\ fs.canonical.doc.users = <<BootUser("A", "pw")>>
    /\ fs.canonical.doc.schedule = "*/2 * * * *"
    /\ fs.canonical.doc.last_ip \in {SENTINEL, BadCapture}

\* run_once, lines 626-628: the cached address is assigned and save_config
\* is called; without overall success run_once goes to line 633
RunOnceSaveCall ==
    /\ pc = "persist"
    /\ IF ShouldPersist(result)
       THEN /\ cached_ip' = CachedAfterSave(current_ip, cached_ip, TRUE)
            /\ saves' = saves + 1
            /\ pc' = "save_config"
            /\ UNCHANGED <<health, path>>
       ELSE /\ health' = write_health_check(health)
            /\ path' = "failed"
            /\ pc' = AfterRunOnce(FALSE)
            /\ UNCHANGED <<cached_ip, saves>>
    /\ UNCHANGED <<cycle, users, current_ip, disk_last_ip, svc_i, queried,
                   svc_log, user_i, calls, result, emails, delivered, entry,
                   resolved_ip, prev, arg, ret, saved, fs, config, exit_code,
                   sched, issued, sig, exc>>

\* run_once, lines 628-634: save_config returned, or raised an exception
\* that is logged
RunOnceSaveReturn ==
    /\ pc \in {"return", "raised"}
    /\ path = "updating"
    /\ saved' = IF pc = "return" THEN "returned" ELSE "raised"
    /\ health' = write_health_check(health)
    /\ path' = "success"
    /\ pc' = AfterRunOnce(TRUE)
    /\ exc' = "none"
    /\ UNCHANGED <<cycle, users, cached_ip, current_ip, disk_last_ip, svc_i,
                   queried, svc_log, user_i, calls, result, emails, delivered,
                   saves, entry, resolved_ip, prev, arg, ret, fs, config,
                   exit_code, sched, issued, sig>>

\* signal_handler, lines 692-700, in the sleep of run, and main entered
\* again by the next process: nothing of the fields of the first process is
\* left, the files are as it left them. One restart, after a cycle whose
\* save raised, of a process whose config.yaml is whole.
Restart ==
    /\ pc = "loop"
    /\ sig = SigAtRest
    /\ saved = "raised"
    /\ fs.canonical.state = "complete"
    /\ sig' = [pc |-> pc, cycle |-> cycle, in_call |-> FALSE]
    /\ exit_code' = <<MainReturn("SystemExit", SignalExitStatus)>>
    /\ pc' = "main"
    /\ cycle' = 0
    /\ users' = <<>>
    /\ cached_ip' = NoneStr
    /\ config' = EmptyDoc
    /\ arg' = fs
    /\ exc' = "none"
    /\ UNCHANGED <<current_ip, disk_last_ip, svc_i, queried, svc_log, user_i,
                   calls, result, emails, delivered, saves, health, path,
                   entry, resolved_ip, prev, ret, saved, fs, sched, issued>>

Restarted == sig # SigAtRest

\* _validate_config, lines 216-219, reached from __init__
ValidateConfigSavedAtStartup ==
    /\ path # "updating"
    /\ ValidateConfigSaved

NextLifetimes ==
    \/ InitConfigDir
    \/ LoadConfig
    \/ ValidateConfig
    \/ SaveConfigStep
    \/ ValidateConfigSavedAtStartup
    \/ MainExcept
    \/ RunFirst
    \/ RunLoop
    \/ RunOnceEnter
    \/ GetPublicIpQuery
    \/ GetPublicIpFail
    \/ RunOnceCheck
    \/ UpdateAllUsersStep
    \/ UpdateAllUsersReturn
    \/ RunOnceReport
    \/ RunOnceSaveCall
    \/ RunOnceSaveReturn
    \/ Restart

SpecLifetimes == InitLifetimes /\ [][NextLifetimes]_vars

\* the running cycle has resolved the address of the cycle before it, which
\* updated every account and whose save raised
SaveWasLost ==
    /\ prev.path = "success"
    /\ prev.saved = "raised"
    /\ resolved_ip = prev.ip

\* C35: a save that raised after a successful update is not tried again
\* while the address stays the same. At the end of that cycle the cached
\* address is the resolved one and the last_ip of config.yaml is the one the
\* cycle found there; the following cycle of the same process that resolves
\* this address is skipped, calls no account, saves nothing and leaves
\* last_ip as it is, as every skipped cycle does; a later cycle that succeeds
\* and whose save returns leaves last_ip equal to the cached address; and in
\* a process started again in between, whose config.yaml still holds another
\* last_ip, the cycle that resolves this address is not skipped and calls
\* every account.
C35_FailedSaveIsNotRetried ==
    /\ (CycleDone /\ path = "success" /\ saved = "raised") =>
        /\ cached_ip = resolved_ip
        /\ disk_last_ip = entry.disk_last_ip
    /\ (cycle >= 2 /\ SaveWasLost) =>
        /\ path \in {"running", "skipped"}
        /\ cached_ip = resolved_ip
        /\ calls = <<>>
        /\ saves = 0
        /\ disk_last_ip = entry.disk_last_ip
    /\ (cycle >= 1 /\ path = "skipped") =>
        /\ cached_ip = entry.cached_ip
        /\ disk_last_ip = entry.disk_last_ip
    /\ (CycleDone /\ path = "success" /\ saved = "returned") =>
        /\ disk_last_ip = cached_ip
        /\ cached_ip = resolved_ip
    /\ (cycle = 1 /\ Restarted /\ SaveWasLost
            /\ entry.disk_last_ip # resolved_ip) =>
        /\ path \in {"running", "updating", "failed", "success"}
        /\ UpdateReturned => CallAccounts(calls) = users

====
